---- MODULE Spec2Model ----
(***************************************************************************)
(* Model of the BC 2025 income-structuring calculator (incorp-calc):       *)
(* progressive bracket tax, tiered CPP contributions, corporate tax, the   *)
(* unincorporated / salary / dividend scenario calculators and their       *)
(* bisection solvers.                                                      *)
(*                                                                         *)
(* The program computes on JavaScript Numbers, IEEE 754 binary64 values.   *)
(* A finite Number is modelled as [neg, e, m]: the sign, the exponent of   *)
(* the least significant bit and the significand m in four radix-2^14      *)
(* limbs, least significant first, so its value is (-1)^neg * m * 2^e.  A  *)
(* normal Number has a 53-bit significand; a subnormal one has e = -1074.  *)
(* Infinity and NaN have an empty significand.  Every operation computes   *)
(* the exact result and rounds it to the nearest Number, ties to even, as  *)
(* the hardware does; a decimal literal is the Number nearest to it.       *)
(***************************************************************************)
EXTENDS Integers, Sequences, FiniteSets, TLC

VARIABLES pc, inp, sol, out

vars == <<pc, inp, sol, out>>

(***************************************************************************)
(* Number arithmetic                                                       *)
(***************************************************************************)
Base == 16384

LimbBits == 14

Precision == 53

MinExp == -1074

MaxBits == 1024

ZeroM == <<0, 0, 0, 0>>

NL == Len(ZeroM)

At(a, i) == IF i >= 1 /\ i <= Len(a) THEN a[i] ELSE 0

RECURSIVE CarryFrom(_, _, _)
CarryFrom(cols, i, c) ==
  IF i > Len(cols) THEN <<>>
  ELSE <<(cols[i] + c) % Base>> \o CarryFrom(cols, i + 1, (cols[i] + c) \div Base)

AddM(a, b) ==
  CarryFrom([k \in 1..((IF Len(a) > Len(b) THEN Len(a) ELSE Len(b)) + 1) |-> At(a, k) + At(b, k)], 1, 0)

\* a - b for a >= b
SubM(a, b) == CarryFrom([k \in 1..Len(a) |-> a[k] - At(b, k)], 1, 0)

RECURSIVE TopLimb(_, _)
TopLimb(a, i) ==
  IF i = 0 THEN 0 ELSE IF a[i] # 0 THEN i ELSE TopLimb(a, i - 1)

RECURSIVE BitsOf(_)
BitsOf(d) == IF d = 0 THEN 0 ELSE 1 + BitsOf(d \div 2)

BitLengthAt(a, t) == IF t = 0 THEN 0 ELSE LimbBits * (t - 1) + BitsOf(a[t])

BitLength(a) == BitLengthAt(a, TopLimb(a, Len(a)))

RECURSIVE CmpFrom(_, _, _)
CmpFrom(a, b, i) ==
  IF i = 0 THEN 0
  ELSE IF At(a, i) > At(b, i) THEN 1
  ELSE IF At(a, i) < At(b, i) THEN -1
  ELSE CmpFrom(a, b, i - 1)

CmpM(a, b) == CmpFrom(a, b, IF Len(a) > Len(b) THEN Len(a) ELSE Len(b))

ShiftLeftBy(a, q, r) ==
  [j \in 1..(Len(a) + q + 1) |->
     (At(a, j - q) % (2 ^ (LimbBits - r))) * (2 ^ (r)) + At(a, j - q - 1) \div (2 ^ (LimbBits - r))]

\* a * 2^k
ShiftLeft(a, k) == ShiftLeftBy(a, k \div LimbBits, k % LimbBits)

ShiftRightBy(a, q, r) ==
  [j \in 1..Len(a) |->
     At(a, j + q) \div (2 ^ (r)) + (At(a, j + q + 1) % (2 ^ (r))) * (2 ^ (LimbBits - r))]

\* a \div 2^k
ShiftRight(a, k) == ShiftRightBy(a, k \div LimbBits, k % LimbBits)

Bit(a, k) == (At(a, k \div LimbBits + 1) \div (2 ^ (k % LimbBits))) % 2

\* a % 2^k = 0
LowZero(a, k) ==
  /\ \A j \in 1..(k \div LimbBits) : At(a, j) = 0
  /\ At(a, k \div LimbBits + 1) % (2 ^ (k % LimbBits)) = 0

\* the sum of a[i] * b[k + 1 - i] for i from i to last
RECURSIVE ColSum(_, _, _, _, _)
ColSum(a, b, k, i, last) ==
  IF i > last THEN 0 ELSE a[i] * b[k + 1 - i] + ColSum(a, b, k, i + 1, last)

\* a * b
MulM(a, b) ==
  CarryFrom([k \in 1..(Len(a) + Len(b)) |->
               ColSum(a, b, k, IF k > Len(b) THEN k + 1 - Len(b) ELSE 1,
                      IF k > Len(a) THEN Len(a) ELSE k)], 1, 0)

MulSmallM(b, d) == CarryFrom([k \in 1..(NL + 1) |-> At(b, k) * d], 1, 0)

\* the largest q with b * q <= rem, at or below the estimate q
RECURSIVE QuotFix(_, _, _)
QuotFix(rem, b, q) ==
  IF CmpM(MulSmallM(b, q), rem) <= 0 THEN q ELSE QuotFix(rem, b, q - 1)

\* the quotient limb of rem by b, rem < b * Base, for b with a top limb of at
\* least Base / 2: the estimate from the leading limbs is at most 2 too large
QuotDigit(rem, b) ==
  QuotFix(rem, b, IF (rem[NL + 1] * Base + rem[NL]) \div b[NL] >= Base THEN Base - 1
                  ELSE (rem[NL + 1] * Base + rem[NL]) \div b[NL])

\* a quotient and remainder pair with one more quotient limb d in front
Push(qr, d) == << qr[1] \o <<d>>, qr[2] >>

\* the quotient limbs of n[1..k] by b, least significant first, and the remainder
RECURSIVE LongDiv(_, _, _, _)
RECURSIVE LongDivLimb(_, _, _, _, _)
LongDivLimb(n, b, k, r1, d) ==
  IF d = 0 THEN Push(LongDiv(n, b, k - 1, r1), 0)
  ELSE Push(LongDiv(n, b, k - 1, SubM(r1, MulSmallM(b, d))), d)

LongDiv(n, b, k, rem) ==
  IF k = 0 THEN << <<>>, rem >>
  ELSE LongDivLimb(n, b, k, <<n[k]>> \o SubSeq(rem, 1, NL),
                   QuotDigit(<<n[k]>> \o SubSeq(rem, 1, NL), b))

\* the quotient limbs of n[1..k] by the small d and the remainder
RECURSIVE ShortDiv(_, _, _, _)
ShortDiv(n, d, k, rem) ==
  IF k = 0 THEN << <<>>, rem >>
  ELSE Push(ShortDiv(n, d, k - 1, (rem * Base + n[k]) % d), (rem * Base + n[k]) \div d)

NaN == [neg |-> FALSE, e |-> 1, m |-> <<>>]

Infinity(neg) == [neg |-> neg, e |-> 0, m |-> <<>>]

\* Number.POSITIVE_INFINITY: the open ceiling of a table's last bracket
POSITIVE_INFINITY == Infinity(FALSE)

SignedZero(neg) == [neg |-> neg, e |-> 0, m |-> ZeroM]

IsNaN(x) == Len(x.m) = 0 /\ x.e = 1

IsInf(x) == Len(x.m) = 0 /\ x.e = 0

IsZero(x) == x.m = ZeroM

\* a parameter or an option the caller left out
undefined == [undefined |-> TRUE]

null == [null |-> TRUE]

\* `name = d` in a destructuring: the default d stands in for a property left out
Default(x, d) == IF x = undefined THEN d ELSE x

\* `x ?? d`: d stands in for undefined and null
Nullish(x, d) == IF x = undefined \/ x = null THEN d ELSE x

\* `x || d`: d stands in for undefined, null, NaN, 0 and -0
OrElse(x, d) ==
  IF x = undefined \/ x = null THEN d
  ELSE IF IsNaN(x) \/ IsZero(x) THEN d
  ELSE x

Finite(neg, m, e) ==
  IF m = ZeroM THEN SignedZero(neg)
  ELSE IF e + Precision > MaxBits THEN Infinity(neg)
  ELSE [neg |-> neg, e |-> e, m |-> m]

\* the Number of significand q (at most 53 bits, in the low four limbs) and
\* exponent e
Mk(neg, q, e) == Finite(neg, <<q[1], q[2], q[3], q[4]>>, e)

\* q, or the next integer when the cut-off part is above one half or is one half
\* and q is odd
Nearest(q, half, more) ==
  IF half /\ (more \/ q[1] % 2 = 1) THEN CarryFrom(q, 1, 1) ELSE q

\* a \div 2^k rounded to nearest, ties to even, k > 0, in four limbs
RoundShift(a, k) ==
  Nearest(SubSeq(ShiftRight(a, k), 1, NL), Bit(a, k - 1) = 1, ~LowZero(a, k - 1))

\* rounding up may carry into a 54th bit: 2^53 is 2^52 with the next exponent
Renorm(neg, q, e) ==
  IF q[NL] >= 2 * (Base \div 16) THEN Mk(neg, <<0, 0, 0, Base \div 16>>, e + 1)
  ELSE Mk(neg, q, e)

RoundBy(neg, a, e, k) ==
  IF k <= 0 THEN Mk(neg, ShiftLeft(a, -k), e + k)
  ELSE Renorm(neg, RoundShift(a, k), e + k)

\* a * 2^e rounded to the nearest Number, ties to even: the significand keeps
\* 53 bits, fewer when the exponent would fall below the least one
RoundBits(neg, a, e, len) ==
  IF len = 0 THEN SignedZero(neg)
  ELSE RoundBy(neg, a, e, IF len - Precision > MinExp - e THEN len - Precision ELSE MinExp - e)

Round(neg, a, e) == RoundBits(neg, a, e, BitLength(a))

\* the floor of a quotient, doubled, with a last bit that tells a remainder was left
Sticky(q, inexact) == AddM(ShiftLeft(q, 1), IF inexact THEN <<1>> ELSE <<0>>)

DivQR(neg, qr, e) == Round(neg, Sticky(qr[1], TopLimb(qr[2], Len(qr[2])) # 0), e - 1)

DivShifted(neg, n, b, e) == DivQR(neg, LongDiv(n, b, Len(n), [k \in 1..(NL + 1) |-> 0]), e)

\* a * 2^ea / (b * 2^eb) rounded to the nearest Number, a > 0, b > 0: the divisor
\* is shifted to fill its limbs, the dividend far enough for a quotient of 55
\* bits or more
DivBy(neg, a, ea, b, eb, sa, sb) ==
  DivShifted(neg, ShiftLeft(a, sa), SubSeq(ShiftLeft(b, sb), 1, NL), ea - eb - sa + sb)

DivM(neg, a, ea, b, eb) ==
  IF b = <<0, 0, 0, Base \div 16>> THEN Round(neg, a, ea - eb - (Precision - 1))
  ELSE DivBy(neg, a, ea, b, eb, 2 * NL * LimbBits - BitLength(a), NL * LimbBits - BitLength(b))

RECURSIVE Limbs(_)
Limbs(n) == IF n = 0 THEN <<>> ELSE <<n % Base>> \o Limbs(n \div Base)

DecQR(q1, q2) == Round(FALSE, Sticky(q2[1], q1[2] # 0 \/ q2[2] # 0), -(6 * LimbBits) - 8 - 1)

DecQ(q1) == DecQR(q1, ShortDiv(q1[1], 625, Len(q1[1]), 0))

\* a / 10^8 rounded to the nearest Number: 10^8 = 625 * 625 * 2^8
DecM(a) == DecQ(ShortDiv(<<0, 0, 0, 0, 0, 0>> \o a, 625, Len(a) + 6, 0))

\* the literal n.f: n whole and f * 10^-8, n >= 0, 0 <= f < 10^8
Dec(n, f) == DecM(AddM(MulM(Limbs(n) \o <<0>>, Limbs(100000000)), Limbs(f)))

\* the whole number n
N(n) == Round(n < 0, Limbs(IF n < 0 THEN -n ELSE n), 0)

Zero == SignedZero(FALSE)

\* c = 2: the signs agree; else c compares the aligned magnitudes a and y.m
AddMag(x, y, a, c) ==
  IF c = 0 THEN SignedZero(FALSE)
  ELSE Round(IF c > 0 THEN x.neg ELSE y.neg,
             IF c = 2 THEN AddM(a, y.m) ELSE IF c = 1 THEN SubM(a, y.m) ELSE SubM(y.m, a),
             y.e)

AddShifted(x, y, a) == AddMag(x, y, a, IF x.neg = y.neg THEN 2 ELSE CmpM(a, y.m))

\* x + y for finite non-zero x, y with x.e >= y.e; a y below a quarter of x's
\* last place leaves x
AddAligned(x, y) ==
  IF x.e - y.e > Precision + 2 THEN x
  ELSE AddShifted(x, y, ShiftLeft(x.m, x.e - y.e))

Add(x, y) ==
  IF IsNaN(x) \/ IsNaN(y) THEN NaN
  ELSE IF IsInf(x) THEN (IF IsInf(y) /\ x.neg # y.neg THEN NaN ELSE x)
  ELSE IF IsInf(y) THEN y
  ELSE IF IsZero(x) THEN (IF IsZero(y) THEN SignedZero(x.neg /\ y.neg) ELSE y)
  ELSE IF IsZero(y) THEN x
  ELSE IF x.e >= y.e THEN AddAligned(x, y)
  ELSE AddAligned(y, x)

Sub(x, y) == Add(x, IF IsNaN(y) THEN y ELSE [y EXCEPT !.neg = ~y.neg])

Mul(x, y) ==
  IF IsNaN(x) \/ IsNaN(y) THEN NaN
  ELSE IF IsInf(x) \/ IsInf(y)
       THEN (IF IsZero(x) \/ IsZero(y) THEN NaN ELSE Infinity(x.neg # y.neg))
  ELSE IF IsZero(x) \/ IsZero(y) THEN SignedZero(x.neg # y.neg)
  ELSE Round(x.neg # y.neg, MulM(x.m, y.m), x.e + y.e)

Div(x, y) ==
  IF IsNaN(x) \/ IsNaN(y) THEN NaN
  ELSE IF IsInf(x) THEN (IF IsInf(y) THEN NaN ELSE Infinity(x.neg # y.neg))
  ELSE IF IsInf(y) THEN SignedZero(x.neg # y.neg)
  ELSE IF IsZero(y) THEN (IF IsZero(x) THEN NaN ELSE Infinity(x.neg # y.neg))
  ELSE IF IsZero(x) THEN SignedZero(x.neg # y.neg)
  ELSE DivM(x.neg # y.neg, x.m, x.e, y.m, y.e)

CmpMag(x, y) ==
  IF IsInf(x) THEN (IF IsInf(y) THEN 0 ELSE 1)
  ELSE IF IsInf(y) THEN -1
  ELSE IF IsZero(x) THEN -1
  ELSE IF IsZero(y) THEN 1
  ELSE IF x.e > y.e THEN 1
  ELSE IF x.e < y.e THEN -1
  ELSE CmpM(x.m, y.m)

\* -1, 0, 1 for x < y, x = y, x > y; 2 when x or y is NaN
Cmp(x, y) ==
  IF IsNaN(x) \/ IsNaN(y) THEN 2
  ELSE IF IsZero(x) /\ IsZero(y) THEN 0
  ELSE IF x.neg # y.neg THEN (IF x.neg THEN -1 ELSE 1)
  ELSE IF x.neg THEN -CmpMag(x, y) ELSE CmpMag(x, y)

LE(x, y) == Cmp(x, y) \in {-1, 0}

LT(x, y) == Cmp(x, y) = -1

GE(x, y) == Cmp(x, y) \in {0, 1}

GT(x, y) == Cmp(x, y) = 1

\* Math.max: NaN if either is NaN, and +0 is above -0
Max(x, y) ==
  IF IsNaN(x) \/ IsNaN(y) THEN NaN
  ELSE IF LT(x, y) THEN y
  ELSE IF LT(y, x) THEN x
  ELSE IF x.neg THEN y ELSE x

Min(x, y) ==
  IF IsNaN(x) \/ IsNaN(y) THEN NaN
  ELSE IF LT(y, x) THEN y
  ELSE IF LT(x, y) THEN x
  ELSE IF x.neg THEN x ELSE y

Abs(x) == IF IsNaN(x) THEN x ELSE [x EXCEPT !.neg = FALSE]

\* `const name = v;` followed by the rest of the block is
\* Const({ rest : name \in {v} }): v is evaluated once and named in the rest; the
\* declarations of a block read from its last clause upwards
Const(S) == CHOOSE r \in S : TRUE

(***************************************************************************)
(* Rate tables                                                             *)
(***************************************************************************)
\* taxTables_2025_BC.ts: the CPP table whose keys calcCPP reads
CPP ==
  [BASIC_EXEMPT |-> N(3500), YMPE |-> N(71300), YAMPE |-> N(76400),
   MPE |-> Sub(N(71300), N(3500)),
   RATE_T1 |-> Dec(0, 11900000), RATE_T2 |-> Dec(0, 8000000)]

FED_BRACKETS ==
  << <<N(55867), Dec(0, 15000000)>>,
     <<N(111733), Dec(0, 20500000)>>,
     <<N(173205), Dec(0, 26000000)>>,
     <<N(246752), Dec(0, 29000000)>>,
     <<POSITIVE_INFINITY, Dec(0, 33000000)>> >>

BC_BRACKETS ==
  << <<N(47937), Dec(0, 5060000)>>,
     <<N(95875), Dec(0, 7700000)>>,
     <<N(110076), Dec(0, 10500000)>>,
     <<N(133664), Dec(0, 12290000)>>,
     <<N(181232), Dec(0, 14700000)>>,
     <<N(252752), Dec(0, 16800000)>>,
     <<POSITIVE_INFINITY, Dec(0, 20500000)>> >>

RRSP == [RATE |-> Dec(0, 18000000), MAX_2025 |-> N(32490)]

\* cppHelpers.ts
CPP_2025 ==
  [BASIC_EXEMPTION |-> N(3500), YMPE |-> N(71300), YAMPE |-> N(81200),
   T1_BASE_RATE |-> Dec(0, 4950000), T1_ENH_RATE |-> Dec(0, 1000000),
   T2_RATE |-> Dec(0, 4000000)]

\* corporateTax_BC.ts
SBD_LIMIT_BC == N(500000)

\* faulty variant: the two combined rates exchanged
RATES_2025_Swapped ==
  [sbd_combined |-> Dec(0, 27000000), gen_combined |-> Dec(0, 11000000)]

RATES_2025 == [sbd_combined |-> Dec(0, 11000000), gen_combined |-> Dec(0, 27000000)]

\* SalaryScenario (basic personal amounts, shared by the dividend scenario)
FED_BPA == N(16103)

FED_BPA_RATE == Dec(0, 15000000)

BC_BPA == N(12580)

BC_BPA_RATE == Dec(0, 5060000)

RRSP_MAX_2025 == N(32490)

RRSP_PCT == Dec(0, 18000000)

(***************************************************************************)
(* Progressive tax                                                         *)
(***************************************************************************)
\* faulty variant: prev is never advanced, so every bracket taxes from zero
RECURSIVE progressiveTaxNoPrev(_, _, _, _, _)
progressiveTaxNoPrev(taxable, brackets, i, tax, prev) ==
  IF i > Len(brackets) THEN tax
  ELSE Const({
       Const({
         IF LE(amt, Zero) THEN tax
         ELSE Const({
                IF LE(taxable, cap) THEN tax1
                ELSE progressiveTaxNoPrev(taxable, brackets, i + 1, tax1, prev)
                : tax1 \in {Add(tax, Mul(amt, brackets[i][2]))} })
         : amt \in {Max(Zero, Sub(Min(taxable, cap), prev))} })
         : cap \in {brackets[i][1]} })

RECURSIVE progressiveTaxFrom(_, _, _, _, _)
progressiveTaxFrom(taxable, brackets, i, tax, prev) ==
  IF i > Len(brackets) THEN tax
  ELSE Const({
       Const({
       Const({
         IF LE(amt, Zero) THEN tax
         ELSE Const({
                IF LE(taxable, cap) THEN tax1
                ELSE progressiveTaxFrom(taxable, brackets, i + 1, tax1, cap)
                : tax1 \in {Add(tax, Mul(amt, rate))} })
         : amt \in {Max(Zero, Sub(Min(taxable, cap), prev))} })
         : rate \in {brackets[i][2]} })
         : cap \in {brackets[i][1]} })

progressiveTax(taxable, brackets) == progressiveTaxFrom(taxable, brackets, 1, Zero, Zero)

(***************************************************************************)
(* Bracket tax over {upTo, rate} tables (components/DividendScenario.tsx,  *)
(* salary section)                                                         *)
(***************************************************************************)
FED_BRACKETS_2025 ==
  << [upTo |-> N(55867), rate |-> Dec(0, 15000000)],
     [upTo |-> N(111733), rate |-> Dec(0, 20500000)],
     [upTo |-> N(173205), rate |-> Dec(0, 26000000)],
     [upTo |-> N(246752), rate |-> Dec(0, 29000000)],
     [upTo |-> POSITIVE_INFINITY, rate |-> Dec(0, 33000000)] >>

BC_BRACKETS_2025 ==
  << [upTo |-> N(47937), rate |-> Dec(0, 5060000)],
     [upTo |-> N(95875), rate |-> Dec(0, 7700000)],
     [upTo |-> N(110076), rate |-> Dec(0, 10500000)],
     [upTo |-> N(133664), rate |-> Dec(0, 12290000)],
     [upTo |-> N(181232), rate |-> Dec(0, 14700000)],
     [upTo |-> N(252752), rate |-> Dec(0, 16800000)],
     [upTo |-> POSITIVE_INFINITY, rate |-> Dec(0, 20500000)] >>

\* faulty variant: lower is never advanced, so every band is measured from zero
RECURSIVE taxFromBracketsNoLower(_, _, _, _, _)
taxFromBracketsNoLower(remaining, brackets, i, lower, tax) ==
  IF i > Len(brackets) THEN tax
  ELSE Const({
       Const({
         IF LT(Zero, band)
         THEN Const({
              Const({
                IF LE(remaining1, Zero) THEN tax1
                ELSE taxFromBracketsNoLower(remaining1, brackets, i + 1, lower, tax1)
                : remaining1 \in {Sub(remaining, band)} })
                : tax1 \in {Add(tax, Mul(band, brackets[i].rate))} })
         ELSE IF LE(remaining, Zero) THEN tax
         ELSE taxFromBracketsNoLower(remaining, brackets, i + 1, lower, tax)
         : band \in {Min(remaining, Sub(upTo, lower))} })
         : upTo \in {brackets[i].upTo} })

\* the loop of taxFromBrackets from bracket i on
RECURSIVE taxFromBracketsFrom(_, _, _, _, _)
taxFromBracketsFrom(remaining, brackets, i, lower, tax) ==
  IF i > Len(brackets) THEN tax
  ELSE Const({
       Const({
       Const({
         IF LT(Zero, band)
         THEN Const({
              Const({
                IF LE(remaining1, Zero) THEN tax1
                ELSE taxFromBracketsFrom(remaining1, brackets, i + 1, upTo, tax1)
                : remaining1 \in {Sub(remaining, band)} })
                : tax1 \in {Add(tax, Mul(band, rate))} })
         ELSE IF LE(remaining, Zero) THEN tax
         ELSE taxFromBracketsFrom(remaining, brackets, i + 1, lower, tax)
         : band \in {Min(remaining, Sub(upTo, lower))} })
         : rate \in {brackets[i].rate} })
         : upTo \in {brackets[i].upTo} })

taxFromBrackets(income, brackets) ==
  taxFromBracketsFrom(Max(Zero, income), brackets, 1, Zero, Zero)

(***************************************************************************)
(* Salary scenario                                                         *)
(***************************************************************************)
\* faulty variant: credits beyond the tax are paid out, no floor at zero
applyCreditsNoFloor(grossTax, credits) == Sub(grossTax, Max(Zero, credits))

applyCredits(grossTax, credits) == Max(Zero, Sub(grossTax, Max(Zero, credits)))

\* faulty variant: the basic exemption is not taken off the tier-1 base
splitCPPBasesNoExemption(gross) ==
  Const({
    [t1Base |-> Max(Zero, Min(s, CPP_2025.YMPE)),
     t2Base |-> Max(Zero, Sub(Min(s, CPP_2025.YAMPE), CPP_2025.YMPE))]
    : s \in {Max(Zero, gross)} })

splitCPPBases(gross) ==
  Const({
    [t1Base |-> Max(Zero, Sub(Min(s, CPP_2025.YMPE), CPP_2025.BASIC_EXEMPTION)),
     t2Base |-> Max(Zero, Sub(Min(s, CPP_2025.YAMPE), CPP_2025.YMPE))]
    : s \in {Max(Zero, gross)} })

\* faulty variant: the creditable base contribution is deducted as well
cppForEmployeeSalaryDeductsAll(gross) ==
  Const({
  Const({
  Const({
  Const({
  Const({
  Const({
  Const({
    [employeePaid |-> Add(Add(ee_t1_base, ee_t1_enh), ee_t2),
     employerPaid |-> Add(Add(er_t1_base, er_t1_enh), er_t2),
     personalDeduction |-> Add(Add(ee_t1_base, ee_t1_enh), ee_t2),
     corporateDeduction |-> Add(Add(er_t1_base, er_t1_enh), er_t2),
     extraFedCredit |-> Mul(ee_t1_base, FED_BPA_RATE),
     extraBcCredit |-> Mul(ee_t1_base, BC_BPA_RATE),
     parts |-> [ee_t1_base |-> ee_t1_base, ee_t1_enh |-> ee_t1_enh, ee_t2 |-> ee_t2,
                er_t1_base |-> er_t1_base, er_t1_enh |-> er_t1_enh, er_t2 |-> er_t2,
                t1Base |-> b.t1Base, t2Base |-> b.t2Base]]
    : er_t2 \in {Mul(b.t2Base, CPP_2025.T2_RATE)} })
    : er_t1_enh \in {Mul(b.t1Base, CPP_2025.T1_ENH_RATE)} })
    : er_t1_base \in {Mul(b.t1Base, CPP_2025.T1_BASE_RATE)} })
    : ee_t2 \in {Mul(b.t2Base, CPP_2025.T2_RATE)} })
    : ee_t1_enh \in {Mul(b.t1Base, CPP_2025.T1_ENH_RATE)} })
    : ee_t1_base \in {Mul(b.t1Base, CPP_2025.T1_BASE_RATE)} })
    : b \in {splitCPPBases(gross)} })

cppForEmployeeSalary(gross) ==
  Const({
  Const({
  Const({
  Const({
  Const({
  Const({
  Const({
    [employeePaid |-> Add(Add(ee_t1_base, ee_t1_enh), ee_t2),
     employerPaid |-> Add(Add(er_t1_base, er_t1_enh), er_t2),
     personalDeduction |-> Add(ee_t1_enh, ee_t2),
     corporateDeduction |-> Add(Add(er_t1_base, er_t1_enh), er_t2),
     extraFedCredit |-> Mul(ee_t1_base, FED_BPA_RATE),
     extraBcCredit |-> Mul(ee_t1_base, BC_BPA_RATE),
     parts |-> [ee_t1_base |-> ee_t1_base, ee_t1_enh |-> ee_t1_enh, ee_t2 |-> ee_t2,
                er_t1_base |-> er_t1_base, er_t1_enh |-> er_t1_enh, er_t2 |-> er_t2,
                t1Base |-> b.t1Base, t2Base |-> b.t2Base]]
    : er_t2 \in {Mul(b.t2Base, CPP_2025.T2_RATE)} })
    : er_t1_enh \in {Mul(b.t1Base, CPP_2025.T1_ENH_RATE)} })
    : er_t1_base \in {Mul(b.t1Base, CPP_2025.T1_BASE_RATE)} })
    : ee_t2 \in {Mul(b.t2Base, CPP_2025.T2_RATE)} })
    : ee_t1_enh \in {Mul(b.t1Base, CPP_2025.T1_ENH_RATE)} })
    : ee_t1_base \in {Mul(b.t1Base, CPP_2025.T1_BASE_RATE)} })
    : b \in {splitCPPBases(gross)} })

netFromGross(grossSalary) ==
  Const({
  Const({
  Const({
  Const({
  Const({
  Const({
  Const({
  Const({
  Const({
  Const({
    [net |-> Sub(Sub(grossSalary, personalTaxes), personalCPP),
     personalTaxes |-> personalTaxes,
     personalCPP |-> personalCPP,
     federalTax |-> fedNet,
     provincialTax |-> bcNet,
     taxableIncome |-> taxableIncome,
     cpp |-> cpp]
    : personalCPP \in {cpp.employeePaid} })
    : personalTaxes \in {Add(fedNet, bcNet)} })
    : bcNet \in {applyCredits(bcGross, bcCredits)} })
    : fedNet \in {applyCredits(fedGross, fedCredits)} })
    : bcCredits \in {Add(Mul(BC_BPA, BC_BPA_RATE), cpp.extraBcCredit)} })
    : fedCredits \in {Add(Mul(FED_BPA, FED_BPA_RATE), cpp.extraFedCredit)} })
    : bcGross \in {progressiveTax(taxableIncome, BC_BRACKETS)} })
    : fedGross \in {progressiveTax(taxableIncome, FED_BRACKETS)} })
    : taxableIncome \in {Max(Zero, Sub(grossSalary, cpp.personalDeduction))} })
    : cpp \in {cppForEmployeeSalary(grossSalary)} })

(***************************************************************************)
(* Unincorporated scenario (engine/calcUnincorporated.ts)                  *)
(***************************************************************************)
calcCPP(gross) ==
  Const({
  Const({
  Const({
  Const({
    Add(cpp1, cpp2)
    : cpp2 \in {Mul(base2, CPP.RATE_T2)} })
    : base2 \in {Max(Zero, Sub(Min(gross, CPP.YAMPE), CPP.YMPE))} })
    : cpp1 \in {Mul(Max(Zero, Min(base1, CPP.MPE)), CPP.RATE_T1)} })
    : base1 \in {Sub(Min(Max(gross, Zero), CPP.YMPE), CPP.BASIC_EXEMPT)} })

calculateUnincorporated(input) ==
  Const({
  Const({
  Const({
  Const({
  Const({
  Const({
  Const({
  Const({
  Const({
  Const({
  Const({
  Const({
  Const({
  Const({
  Const({
    [grossSalary |-> grossSalary,
     eligibleDividends |-> Zero,
     nonEligibleDividends |-> Zero,
     corporateTaxes |-> corporateTaxes,
     corporateCPP |-> corporateCPP,
     personalTaxes |-> personalTaxes,
     totalTaxes |-> totalTaxes,
     totalCPP |-> totalCPP,
     personalCPP |-> personalCPP,
     corporateCash |-> corporateCash,
     personalCash |-> personalCash,
     totalCash |-> totalCash,
     totalTaxRate |-> totalTaxRate,
     rrspRoom |-> rrspRoom,
     federalTax |-> federalTax,
     provincialTax |-> provincialTax,
     taxableIncome |-> taxableIncome]
    : rrspRoom \in {Min(RRSP.MAX_2025, Mul(grossSalary, RRSP.RATE))} })
    : totalTaxRate \in {IF LT(Zero, grossSalary) THEN Div(personalTaxes, grossSalary) ELSE Zero} })
    : totalCash \in {personalCash} })
    : personalCash \in {Sub(Sub(grossSalary, personalTaxes), personalCPP)} })
    : corporateCash \in {Zero} })
    : totalTaxes \in {Add(personalTaxes, corporateTaxes)} })
    : corporateTaxes \in {Zero} })
    : personalTaxes \in {Add(federalTax, provincialTax)} })
    : provincialTax \in {progressiveTax(taxableIncome, BC_BRACKETS)} })
    : federalTax \in {progressiveTax(taxableIncome, FED_BRACKETS)} })
    : taxableIncome \in {Max(Zero, Sub(grossSalary, corporateCPP))} })
    : personalCPP \in {Div(totalCPP, N(2))} })
    : corporateCPP \in {Div(totalCPP, N(2))} })
    : totalCPP \in {calcCPP(grossSalary)} })
    : grossSalary \in {input.businessIncome} })

(***************************************************************************)
(* Self-employed CPP treatment (engine/cppHelpers.ts)                      *)
(***************************************************************************)
\* faulty variant: the employee's treatment, the employer side neither paid nor deducted
cppTaxTreatmentEmployeeSide(gross) ==
  Const({
  Const({
  Const({
  Const({
  Const({
  Const({
  Const({
    [personalPaid |-> Add(Add(ee_t1_base, ee_t1_enh), ee_t2),
     credits |-> [baseEE |-> ee_t1_base],
     personalDeduction |-> Add(ee_t1_enh, ee_t2),
     parts |-> [t1Base |-> b.t1Base, t2Base |-> b.t2Base,
                ee_t1_base |-> ee_t1_base, ee_t1_enh |-> ee_t1_enh, ee_t2 |-> ee_t2,
                er_t1_base |-> er_t1_base, er_t1_enh |-> er_t1_enh, er_t2 |-> er_t2]]
    : er_t2 \in {Mul(b.t2Base, CPP_2025.T2_RATE)} })
    : er_t1_enh \in {Mul(b.t1Base, CPP_2025.T1_ENH_RATE)} })
    : er_t1_base \in {Mul(b.t1Base, CPP_2025.T1_BASE_RATE)} })
    : ee_t2 \in {Mul(b.t2Base, CPP_2025.T2_RATE)} })
    : ee_t1_enh \in {Mul(b.t1Base, CPP_2025.T1_ENH_RATE)} })
    : ee_t1_base \in {Mul(b.t1Base, CPP_2025.T1_BASE_RATE)} })
    : b \in {splitCPPBases(gross)} })

cppTaxTreatmentForUnincorporated(gross) ==
  Const({
  Const({
  Const({
  Const({
  Const({
  Const({
  Const({
    [personalPaid |->
       Add(Add(Add(Add(Add(ee_t1_base, ee_t1_enh), ee_t2), er_t1_base), er_t1_enh), er_t2),
     credits |-> [baseEE |-> ee_t1_base],
     personalDeduction |->
       Add(Add(Add(Add(er_t1_base, ee_t1_enh), er_t1_enh), ee_t2), er_t2),
     parts |-> [t1Base |-> b.t1Base, t2Base |-> b.t2Base,
                ee_t1_base |-> ee_t1_base, ee_t1_enh |-> ee_t1_enh, ee_t2 |-> ee_t2,
                er_t1_base |-> er_t1_base, er_t1_enh |-> er_t1_enh, er_t2 |-> er_t2]]
    : er_t2 \in {Mul(b.t2Base, CPP_2025.T2_RATE)} })
    : er_t1_enh \in {Mul(b.t1Base, CPP_2025.T1_ENH_RATE)} })
    : er_t1_base \in {Mul(b.t1Base, CPP_2025.T1_BASE_RATE)} })
    : ee_t2 \in {Mul(b.t2Base, CPP_2025.T2_RATE)} })
    : ee_t1_enh \in {Mul(b.t1Base, CPP_2025.T1_ENH_RATE)} })
    : ee_t1_base \in {Mul(b.t1Base, CPP_2025.T1_BASE_RATE)} })
    : b \in {splitCPPBases(gross)} })

(***************************************************************************)
(* Corporate tax (engine/corporateTax_BC.ts)                               *)
(***************************************************************************)
\* faulty variant: an empty profit is reported at the small-business rate
computeCorporateTaxesBCFlatRate(profitBeforeTax) ==
  Const({
  Const({
  Const({
  Const({
  Const({
  Const({
  Const({
    [profitBeforeTax |-> p, sbdPortion |-> sbdPortion, genPortion |-> genPortion,
     taxOnSBD |-> taxOnSBD, taxOnGen |-> taxOnGen,
     corporateTaxes |-> corporateTaxes, effectiveRate |-> effectiveRate]
    : effectiveRate \in {IF LT(Zero, p) THEN Div(corporateTaxes, p) ELSE RATES_2025.sbd_combined} })
    : corporateTaxes \in {Add(taxOnSBD, taxOnGen)} })
    : taxOnGen \in {Mul(genPortion, RATES_2025.gen_combined)} })
    : taxOnSBD \in {Mul(sbdPortion, RATES_2025.sbd_combined)} })
    : genPortion \in {Max(Zero, Sub(p, SBD_LIMIT_BC))} })
    : sbdPortion \in {Min(p, SBD_LIMIT_BC)} })
    : p \in {Max(Zero, profitBeforeTax)} })

computeCorporateTaxesBC(profitBeforeTax) ==
  Const({
  Const({
  Const({
  Const({
  Const({
  Const({
  Const({
    [profitBeforeTax |-> p, sbdPortion |-> sbdPortion, genPortion |-> genPortion,
     taxOnSBD |-> taxOnSBD, taxOnGen |-> taxOnGen,
     corporateTaxes |-> corporateTaxes, effectiveRate |-> effectiveRate]
    : effectiveRate \in {IF LT(Zero, p) THEN Div(corporateTaxes, p) ELSE Zero} })
    : corporateTaxes \in {Add(taxOnSBD, taxOnGen)} })
    : taxOnGen \in {Mul(genPortion, RATES_2025.gen_combined)} })
    : taxOnSBD \in {Mul(sbdPortion, RATES_2025.sbd_combined)} })
    : genPortion \in {Max(Zero, Sub(p, SBD_LIMIT_BC))} })
    : sbdPortion \in {Min(p, SBD_LIMIT_BC)} })
    : p \in {Max(Zero, profitBeforeTax)} })

(***************************************************************************)
(* Dividend scenario (components/DividendScenario.tsx, eligible first)     *)
(***************************************************************************)
GROSS_UP == [eligible |-> Dec(1, 38000000), nonEligible |-> Dec(1, 15000000)]

FED_DTC_RATE == [eligible |-> Dec(0, 15019800), nonEligible |-> Dec(0, 9030100)]

BC_DTC_RATE == [eligible |-> Dec(0, 12000000), nonEligible |-> Dec(0, 1960000)]

\* the 0.01 of the solvers' tolerance tests
Cent == Dec(0, 1000000)

\* faulty variant: credits beyond the tax are paid out, no floor at zero
applyNonRefundableCreditsNoFloor(grossTax, totalCredits) ==
  Sub(grossTax, Max(Zero, totalCredits))

applyNonRefundableCredits(grossTax, totalCredits) ==
  Max(Zero, Sub(grossTax, Max(Zero, totalCredits)))

\* faulty variant: the dividend tax credits are taken on the cash paid, not on the
\* grossed-up amounts
personalDividendTaxCombinedCreditOnCash(eligibleCash, nonEligibleCash) ==
  Const({
  Const({
  Const({
  Const({
  Const({
  Const({
  Const({
  Const({
  Const({
  Const({
  Const({
    [personalTax |-> Add(fedNet, bcNet),
     federalTax |-> fedNet,
     provincialTax |-> bcNet,
     taxableAmount |-> grossedTotal]
    : bcNet \in {applyNonRefundableCredits(bcTaxGross, Add(bcDTC, bcBpaCredit))} })
    : fedNet \in {applyNonRefundableCredits(fedTaxGross, Add(fedDTC, fedBpaCredit))} })
    : bcBpaCredit \in {Mul(BC_BPA, BC_BPA_RATE)} })
    : fedBpaCredit \in {Mul(FED_BPA, FED_BPA_RATE)} })
    : bcDTC \in {Add(Mul(Max(Zero, eligibleCash), BC_DTC_RATE.eligible),
            Mul(Max(Zero, nonEligibleCash), BC_DTC_RATE.nonEligible))} })
    : fedDTC \in {Add(Mul(Max(Zero, eligibleCash), FED_DTC_RATE.eligible),
            Mul(Max(Zero, nonEligibleCash), FED_DTC_RATE.nonEligible))} })
    : bcTaxGross \in {progressiveTax(grossedTotal, BC_BRACKETS)} })
    : fedTaxGross \in {progressiveTax(grossedTotal, FED_BRACKETS)} })
    : grossedTotal \in {Add(eligGrossed, nonEligGrossed)} })
    : nonEligGrossed \in {Mul(Max(Zero, nonEligibleCash), GROSS_UP.nonEligible)} })
    : eligGrossed \in {Mul(Max(Zero, eligibleCash), GROSS_UP.eligible)} })

personalDividendTaxCombined(eligibleCash, nonEligibleCash) ==
  Const({
  Const({
  Const({
  Const({
  Const({
  Const({
  Const({
  Const({
  Const({
  Const({
  Const({
    [personalTax |-> Add(fedNet, bcNet),
     federalTax |-> fedNet,
     provincialTax |-> bcNet,
     taxableAmount |-> grossedTotal]
    : bcNet \in {applyNonRefundableCredits(bcTaxGross, Add(bcDTC, bcBpaCredit))} })
    : fedNet \in {applyNonRefundableCredits(fedTaxGross, Add(fedDTC, fedBpaCredit))} })
    : bcBpaCredit \in {Mul(BC_BPA, BC_BPA_RATE)} })
    : fedBpaCredit \in {Mul(FED_BPA, FED_BPA_RATE)} })
    : bcDTC \in {Add(Mul(eligGrossed, BC_DTC_RATE.eligible),
            Mul(nonEligGrossed, BC_DTC_RATE.nonEligible))} })
    : fedDTC \in {Add(Mul(eligGrossed, FED_DTC_RATE.eligible),
            Mul(nonEligGrossed, FED_DTC_RATE.nonEligible))} })
    : bcTaxGross \in {progressiveTax(grossedTotal, BC_BRACKETS)} })
    : fedTaxGross \in {progressiveTax(grossedTotal, FED_BRACKETS)} })
    : grossedTotal \in {Add(eligGrossed, nonEligGrossed)} })
    : nonEligGrossed \in {Mul(Max(Zero, nonEligibleCash), GROSS_UP.nonEligible)} })
    : eligGrossed \in {Mul(Max(Zero, eligibleCash), GROSS_UP.eligible)} })

\* DividendScenario.tsx: the tax on a cash dividend of one class
personalDividendTax(divCash, type) ==
  Const({
  Const({
  Const({
  Const({
  Const({
  Const({
  Const({
  Const({
  Const({
  Const({
  Const({
    [personalTax |-> Add(fedNet, bcNet),
     fedTax |-> fedNet,
     bcTax |-> bcNet,
     fedDTC |-> fedDTC,
     bcDTC |-> bcDTC,
     taxableAmount |-> grossed]
    : bcNet \in {applyNonRefundableCredits(bcTaxGross, bcCreditsTotal)} })
    : fedNet \in {applyNonRefundableCredits(fedTaxGross, fedCreditsTotal)} })
    : bcCreditsTotal \in {Add(bcDTC, bcBpaCredit)} })
    : fedCreditsTotal \in {Add(fedDTC, fedBpaCredit)} })
    : bcBpaCredit \in {Mul(BC_BPA, BC_BPA_RATE)} })
    : fedBpaCredit \in {Mul(FED_BPA, FED_BPA_RATE)} })
    : bcDTC \in {Mul(grossed, BC_DTC_RATE[type])} })
    : fedDTC \in {Mul(grossed, FED_DTC_RATE[type])} })
    : bcTaxGross \in {progressiveTax(grossed, BC_BRACKETS)} })
    : fedTaxGross \in {progressiveTax(grossed, FED_BRACKETS)} })
    : grossed \in {Mul(Max(Zero, divCash), GROSS_UP[type])} })

netCombined(eligibleCash, nonEligibleCash) ==
  Sub(Add(eligibleCash, nonEligibleCash),
      personalDividendTaxCombined(eligibleCash, nonEligibleCash).personalTax)

\* solveEligibleGivenNonEligible up to its loop: the early return of the cap, or
\* the loop's first range
solveEligibleEntry(targetNet, nonEligibleFixed, eligCap) ==
  IF LT(netCombined(eligCap, nonEligibleFixed), Sub(targetNet, Cent))
  THEN [returned |-> TRUE, value |-> eligCap,
        low |-> Zero, high |-> Zero, lastMid |-> Zero, i |-> 0]
  ELSE Const({
         [returned |-> FALSE, value |-> Zero,
          low |-> Zero, high |-> high, lastMid |-> high, i |-> 0]
         : high \in {Max(eligCap, N(1))} })

\* one iteration of solveEligibleGivenNonEligible's loop, or the return after it
solveEligibleStep(s, targetNet, nonEligibleFixed, eligCap) ==
  IF ~(s.i < 80) THEN [s EXCEPT !.returned = TRUE, !.value = Min(s.lastMid, eligCap)]
  ELSE Const({
       Const({
         IF LE(Abs(Sub(n, targetNet)), Cent) \/ LE(Abs(Sub(mid, s.lastMid)), Cent)
         THEN [s EXCEPT !.returned = TRUE, !.value = Min(mid, eligCap)]
         ELSE IF LT(n, targetNet)
         THEN [s EXCEPT !.low = mid, !.lastMid = mid, !.i = s.i + 1]
         ELSE [s EXCEPT !.high = mid, !.lastMid = mid, !.i = s.i + 1]
         : n \in {netCombined(mid, nonEligibleFixed)} })
         : mid \in {Div(Add(s.low, s.high), N(2))} })

\* solveNonEligibleGivenEligible up to its loop
solveNonEligibleEntry(targetNet, eligibleFixed, neCap) ==
  IF LT(netCombined(eligibleFixed, neCap), Sub(targetNet, Cent))
  THEN [returned |-> TRUE, value |-> neCap,
        low |-> Zero, high |-> Zero, lastMid |-> Zero, i |-> 0]
  ELSE Const({
         [returned |-> FALSE, value |-> Zero,
          low |-> Zero, high |-> high, lastMid |-> high, i |-> 0]
         : high \in {Max(neCap, N(1))} })

\* one iteration of solveNonEligibleGivenEligible's loop, or the return after it
solveNonEligibleStep(s, targetNet, eligibleFixed, neCap) ==
  IF ~(s.i < 80) THEN [s EXCEPT !.returned = TRUE, !.value = Min(s.lastMid, neCap)]
  ELSE Const({
       Const({
         IF LE(Abs(Sub(n, targetNet)), Cent) \/ LE(Abs(Sub(mid, s.lastMid)), Cent)
         THEN [s EXCEPT !.returned = TRUE, !.value = Min(mid, neCap)]
         ELSE IF LT(n, targetNet)
         THEN [s EXCEPT !.low = mid, !.lastMid = mid, !.i = s.i + 1]
         ELSE [s EXCEPT !.high = mid, !.lastMid = mid, !.i = s.i + 1]
         : n \in {netCombined(eligibleFixed, mid)} })
         : mid \in {Div(Add(s.low, s.high), N(2))} })

\* faulty variant: the pools are the pre-tax bases, no corporate tax taken off
dividendPoolsUntaxed(businessIncome, otherExpenses) ==
  Const({
    [profitBeforeTax |-> profitBeforeTax,
     corporateTaxes |-> Zero,
     neCap |-> Min(profitBeforeTax, N(500000)),
     elCap |-> Max(Zero, Sub(profitBeforeTax, N(500000))),
     afterTaxTotal |-> profitBeforeTax]
    : profitBeforeTax \in {Max(Zero, Sub(businessIncome, OrElse(otherExpenses, Zero)))} })

\* step 1 of calculateIncorporatedDividends: corporate profit split into the two pools
dividendPools(businessIncome, otherExpenses) ==
  Const({
  Const({
  Const({
  Const({
  Const({
  Const({
  Const({
  Const({
  Const({
  Const({
    [profitBeforeTax |-> profitBeforeTax,
     corporateTaxes |-> Add(taxSBD, taxGEN),
     neCap |-> neCap, elCap |-> elCap,
     afterTaxTotal |-> Add(neCap, elCap)]
    : elCap \in {Sub(genBase, taxGEN)} })
    : neCap \in {Sub(sbdBase, taxSBD)} })
    : taxGEN \in {Mul(genBase, RATE_GEN)} })
    : taxSBD \in {Mul(sbdBase, RATE_SBD)} })
    : genBase \in {Max(Zero, Sub(profitBeforeTax, SBD_LIMIT))} })
    : sbdBase \in {Min(profitBeforeTax, SBD_LIMIT)} })
    : profitBeforeTax \in {Max(Zero, Sub(businessIncome, OrElse(otherExpenses, Zero)))} })
    : RATE_GEN \in {Dec(0, 27000000)} })
    : RATE_SBD \in {Dec(0, 11000000)} })
    : SBD_LIMIT \in {N(500000)} })

\* calculateIncorporatedDividends up to the first solver call
dividendsBegin(params) ==
  Const({
  Const({
  Const({
    [pools |-> pools, target |-> target,
     eligibleDividends |-> Zero, nonEligibleDividends |-> Zero,
     loop |-> solveEligibleEntry(target, Zero, pools.elCap)]
    : target \in {Max(Zero, params.personalCashNeeded)} })
    : pools \in {dividendPools(params.businessIncome, otherExpenses)} })
    : otherExpenses \in {Default(params.otherExpenses, Zero)} })

\* step 2's test on what the eligible-only solve returned
eligibleAloneMeets(eligOnly, target) == GE(Add(netCombined(eligOnly, Zero), Cent), target)

\* calculateIncorporatedDividends from the final caps on, with the mix in s
dividendResult(params, s) ==
  Const({
  Const({
  Const({
  Const({
  Const({
  Const({
  Const({
  Const({
  Const({
  Const({
  Const({
  Const({
  Const({
  Const({
  Const({
    [scenario |-> "INC_DIVIDENDS",
     grossSalary |-> Zero,
     eligibleDividends |-> eligibleDividends,
     nonEligibleDividends |-> nonEligibleDividends,
     corporateTaxes |-> pools.corporateTaxes,
     corporateCPP |-> Zero,
     personalTaxes |-> personalTaxes,
     totalTaxes |-> totalTaxes,
     totalCPP |-> totalCPP,
     personalCPP |-> Zero,
     corporateCash |-> corporateCash,
     personalCash |-> personalCash,
     totalCash |-> totalCash,
     totalTaxRate |-> totalTaxRate,
     rrspRoom |-> Zero,
     federalTax |-> det.federalTax,
     provincialTax |-> det.provincialTax,
     taxableIncome |-> det.taxableAmount,
     _requiredDividendToHitTarget |-> Add(eligibleDividends, nonEligibleDividends),
     _cappedByAfterTaxProfit |-> capped]
    : capped \in {LT(Add(netCombined(elCap, neCap), Cent), s.target)} })
    : totalTaxRate \in {IF LT(Zero, businessIncome)
        THEN Div(Add(totalTaxes, totalCPP), businessIncome) ELSE Zero} })
    : totalCash \in {Add(personalCash, corporateCash)} })
    : totalTaxes \in {Add(personalTaxes, pools.corporateTaxes)} })
    : totalCPP \in {Zero} })
    : corporateCash \in {Sub(Sub(pools.afterTaxTotal, eligibleDividends), nonEligibleDividends)} })
    : personalCash \in {Sub(Add(eligibleDividends, nonEligibleDividends), personalTaxes)} })
    : personalTaxes \in {det.personalTax} })
    : det \in {personalDividendTaxCombined(eligibleDividends, nonEligibleDividends)} })
    : nonEligibleDividends \in {Min(s.nonEligibleDividends, neCap)} })
    : eligibleDividends \in {Min(s.eligibleDividends, elCap)} })
    : elCap \in {pools.elCap} })
    : neCap \in {pools.neCap} })
    : pools \in {s.pools} })
    : businessIncome \in {params.businessIncome} })

(***************************************************************************)
(* Salary scenario: solveGrossForNet, one loop iteration per step          *)
(***************************************************************************)
\* `opts?.name`: undefined when the options, or the named one, are left out
optionOf(opts, name) ==
  IF opts = undefined \/ opts = null THEN undefined
  ELSE IF name \in DOMAIN opts THEN opts[name]
  ELSE undefined

\* the options of the solver call: the caller's for solveGrossForNet itself, none
\* for calculateIncorporatedSalary, which calls solveGrossForNet(personalCashNeeded)
optsOf(params) == IF params.fn = "solveGrossForNet" THEN params.opts ELSE undefined

\* solveGrossForNet's first lines: tolerance and maxIter as given or 0.01 and 100,
\* and the search range before the doubling loop
solveInit(personalCashNeeded, opts) ==
  [tolerance |-> Nullish(optionOf(opts, "tolerance"), Cent),
   maxIter |-> Nullish(optionOf(opts, "maxIter"), N(100)),
   low |-> Max(Zero, personalCashNeeded),
   high |-> Nullish(optionOf(opts, "initialHigh"),
                    Max(N(500000), Mul(personalCashNeeded, N(2)))),
   lastMid |-> Zero, i |-> 0, iter |-> 0]

\* faulty variant: the doubling loop has no limit of 20
expandDoneUnbounded(s, personalCashNeeded) ==
  GE(netFromGross(s.high).net, personalCashNeeded)

\* the doubling loop's exit test: 20 evaluations at most, or net(high) >= target
expandDone(s, personalCashNeeded) ==
  ~(s.i < 20) \/ GE(netFromGross(s.high).net, personalCashNeeded)

\* the bisection loop's midpoint
bisectMid(s) == Div(Add(s.low, s.high), N(2))

\* faulty variant: the step test compares against a thousand dollars, not the tolerance
bisectConvergedCoarse(solvedNet, mid, lastMid, personalCashNeeded, tolerance) ==
  \/ LE(Abs(Sub(solvedNet, personalCashNeeded)), tolerance)
  \/ LE(Abs(Sub(mid, lastMid)), N(1000))

\* the bisection loop's return test on the midpoint
bisectConverged(solvedNet, mid, lastMid, personalCashNeeded, tolerance) ==
  \/ LE(Abs(Sub(solvedNet, personalCashNeeded)), tolerance)
  \/ LE(Abs(Sub(mid, lastMid)), tolerance)

\* faulty variant: the range is narrowed toward the wrong side of the midpoint
bisectNarrowWrongSide(s, mid, solvedNet, personalCashNeeded) ==
  IF LT(solvedNet, personalCashNeeded)
  THEN [s EXCEPT !.high = mid, !.lastMid = mid, !.iter = s.iter + 1]
  ELSE [s EXCEPT !.low = mid, !.lastMid = mid, !.iter = s.iter + 1]

\* the bisection loop's update of the range
bisectNarrow(s, mid, solvedNet, personalCashNeeded) ==
  IF LT(solvedNet, personalCashNeeded)
  THEN [s EXCEPT !.low = mid, !.lastMid = mid, !.iter = s.iter + 1]
  ELSE [s EXCEPT !.high = mid, !.lastMid = mid, !.iter = s.iter + 1]

\* what solveGrossForNet returns for gross salary g: iterations is the loop's
\* counter at an early return and maxIter itself at the cap
solveResult(g, iterations) ==
  Const({
    [grossSalary |-> g,
     net |-> solved.net,
     personalTaxes |-> solved.personalTaxes,
     personalCPP |-> solved.personalCPP,
     federalTax |-> solved.federalTax,
     provincialTax |-> solved.provincialTax,
     taxableIncome |-> solved.taxableIncome,
     cpp |-> solved.cpp,
     iterations |-> iterations]
    : solved \in {netFromGross(g)} })

\* faulty variant: the employer's contribution is not taken off the corporate profit
salaryResultContributionNotDeducted(params, solved) ==
  Const({
  Const({
  Const({
  Const({
  Const({
  Const({
  Const({
  Const({
  Const({
  Const({
  Const({
  Const({
  Const({
  Const({
  Const({
    [scenario |-> "INC_SALARY",
     grossSalary |-> grossSalary,
     eligibleDividends |-> Zero,
     nonEligibleDividends |-> Zero,
     corporateTaxes |-> corporateTaxes,
     corporateCPP |-> corporateCPP,
     personalTaxes |-> personalTaxes,
     totalTaxes |-> totalTaxes,
     totalCPP |-> totalCPP,
     personalCPP |-> personalCPP,
     corporateCash |-> corporateCash,
     personalCash |-> personalCash,
     totalCash |-> totalCash,
     totalTaxRate |-> totalTaxRate,
     rrspRoom |-> rrspRoom,
     federalTax |-> solved.federalTax,
     provincialTax |-> solved.provincialTax,
     taxableIncome |-> solved.taxableIncome]
    : rrspRoom \in {Min(Mul(grossSalary, RRSP_PCT), RRSP_MAX_2025)} })
    : totalTaxRate \in {IF LT(Zero, businessIncome)
        THEN Div(Add(totalTaxes, totalCPP), businessIncome) ELSE Zero} })
    : totalCash \in {Add(personalCash, corporateCash)} })
    : totalCPP \in {Add(personalCPP, corporateCPP)} })
    : totalTaxes \in {Add(personalTaxes, corporateTaxes)} })
    : personalCash \in {Sub(Sub(grossSalary, personalTaxes), personalCPP)} })
    : corporateCash \in {Sub(corpProfitBeforeTax, corporateTaxes)} })
    : corporateTaxes \in {computeCorporateTaxesBC(corpProfitBeforeTax).corporateTaxes} })
    : corpProfitBeforeTax \in {Max(Zero, Sub(Sub(businessIncome, grossSalary), OrElse(otherExpenses, Zero)))} })
    : corporateCPP \in {solved.cpp.employerPaid} })
    : personalCPP \in {solved.personalCPP} })
    : personalTaxes \in {solved.personalTaxes} })
    : grossSalary \in {solved.grossSalary} })
    : otherExpenses \in {Default(params.otherExpenses, Zero)} })
    : businessIncome \in {params.businessIncome} })

\* faulty variant: the salary paid is held to what the business earned
salaryResultWithinIncome(params, solved) ==
  Const({
  Const({
  Const({
  Const({
  Const({
  Const({
  Const({
  Const({
  Const({
  Const({
  Const({
  Const({
  Const({
  Const({
  Const({
    [scenario |-> "INC_SALARY",
     grossSalary |-> grossSalary,
     eligibleDividends |-> Zero,
     nonEligibleDividends |-> Zero,
     corporateTaxes |-> corporateTaxes,
     corporateCPP |-> corporateCPP,
     personalTaxes |-> personalTaxes,
     totalTaxes |-> totalTaxes,
     totalCPP |-> totalCPP,
     personalCPP |-> personalCPP,
     corporateCash |-> corporateCash,
     personalCash |-> personalCash,
     totalCash |-> totalCash,
     totalTaxRate |-> totalTaxRate,
     rrspRoom |-> rrspRoom,
     federalTax |-> solved.federalTax,
     provincialTax |-> solved.provincialTax,
     taxableIncome |-> solved.taxableIncome]
    : rrspRoom \in {Min(Mul(grossSalary, RRSP_PCT), RRSP_MAX_2025)} })
    : totalTaxRate \in {IF LT(Zero, businessIncome)
        THEN Div(Add(totalTaxes, totalCPP), businessIncome) ELSE Zero} })
    : totalCash \in {Add(personalCash, corporateCash)} })
    : totalCPP \in {Add(personalCPP, corporateCPP)} })
    : totalTaxes \in {Add(personalTaxes, corporateTaxes)} })
    : personalCash \in {Sub(Sub(grossSalary, personalTaxes), personalCPP)} })
    : corporateCash \in {Sub(corpProfitBeforeTax, corporateTaxes)} })
    : corporateTaxes \in {computeCorporateTaxesBC(corpProfitBeforeTax).corporateTaxes} })
    : corpProfitBeforeTax \in {Max(Zero, Sub(Sub(Sub(businessIncome, grossSalary), corporateCPP),
                                              OrElse(otherExpenses, Zero)))} })
    : corporateCPP \in {solved.cpp.employerPaid} })
    : personalCPP \in {solved.personalCPP} })
    : personalTaxes \in {solved.personalTaxes} })
    : grossSalary \in {Min(solved.grossSalary, Max(Zero, params.businessIncome))} })
    : otherExpenses \in {Default(params.otherExpenses, Zero)} })
    : businessIncome \in {params.businessIncome} })

\* calculateIncorporatedSalary after the solver has returned solved
salaryResult(params, solved) ==
  Const({
  Const({
  Const({
  Const({
  Const({
  Const({
  Const({
  Const({
  Const({
  Const({
  Const({
  Const({
  Const({
  Const({
  Const({
    [scenario |-> "INC_SALARY",
     grossSalary |-> grossSalary,
     eligibleDividends |-> Zero,
     nonEligibleDividends |-> Zero,
     corporateTaxes |-> corporateTaxes,
     corporateCPP |-> corporateCPP,
     personalTaxes |-> personalTaxes,
     totalTaxes |-> totalTaxes,
     totalCPP |-> totalCPP,
     personalCPP |-> personalCPP,
     corporateCash |-> corporateCash,
     personalCash |-> personalCash,
     totalCash |-> totalCash,
     totalTaxRate |-> totalTaxRate,
     rrspRoom |-> rrspRoom,
     federalTax |-> solved.federalTax,
     provincialTax |-> solved.provincialTax,
     taxableIncome |-> solved.taxableIncome]
    : rrspRoom \in {Min(Mul(grossSalary, RRSP_PCT), RRSP_MAX_2025)} })
    : totalTaxRate \in {IF LT(Zero, businessIncome)
        THEN Div(Add(totalTaxes, totalCPP), businessIncome) ELSE Zero} })
    : totalCash \in {Add(personalCash, corporateCash)} })
    : totalCPP \in {Add(personalCPP, corporateCPP)} })
    : totalTaxes \in {Add(personalTaxes, corporateTaxes)} })
    : personalCash \in {Sub(Sub(grossSalary, personalTaxes), personalCPP)} })
    : corporateCash \in {Sub(corpProfitBeforeTax, corporateTaxes)} })
    : corporateTaxes \in {computeCorporateTaxesBC(corpProfitBeforeTax).corporateTaxes} })
    : corpProfitBeforeTax \in {Max(Zero, Sub(Sub(Sub(businessIncome, grossSalary), corporateCPP),
                                              OrElse(otherExpenses, Zero)))} })
    : corporateCPP \in {solved.cpp.employerPaid} })
    : personalCPP \in {solved.personalCPP} })
    : personalTaxes \in {solved.personalTaxes} })
    : grossSalary \in {solved.grossSalary} })
    : otherExpenses \in {Default(params.otherExpenses, Zero)} })
    : businessIncome \in {params.businessIncome} })

(***************************************************************************)
(* Inputs                                                                  *)
(***************************************************************************)
MaxTaxableK == 12

MaxProfitK == 48

MaxIncomeK == 60

MaxCashK == 4

MaxBizK == 2

MaxDivIncomeK == 5

MaxDivCashK == 4

MaxCapIter == 2

\* option objects that cap the iterations and may give the first high; tolerance
\* is left out
CapOptions ==
  [maxIter : {N(k) : k \in 0..MaxCapIter} \cup {N(100)},
   initialHigh : {undefined, Cent, N(100000)}]

\* option objects with a tolerance that is left to its default, coarse, zero or
\* not a number, and a cap that is left to its default or is not whole
ToleranceOptions ==
  [tolerance : {null, N(1000), Zero, NaN},
   maxIter : {undefined, null, Dec(2, 50000000)}]

\* 10^15, where neighbouring Numbers are 0.125 apart
LargeTarget == Mul(N(1000000000), N(1000000))

\* 2^1000: twenty doublings of twice this amount still are Numbers
TopTarget == Round(FALSE, Limbs(1), 1000)

MaxGrossK == 90

MaxNetK == 60

MaxDivTaxK == 8

MaxPairCashK == 1

MaxBracketK == 30

NoSol == [low |-> Zero, high |-> Zero, lastMid |-> Zero, i |-> 0, iter |-> 0]

NoOut == [scenario |-> "NONE"]

RECURSIVE Ceilings(_, _)
Ceilings(brackets, i) ==
  IF i > Len(brackets) THEN {}
  ELSE (IF IsInf(brackets[i][1]) THEN {} ELSE {brackets[i][1]}) \cup Ceilings(brackets, i + 1)

TaxableInputs ==
  {N(k * 25000) : k \in 0..MaxTaxableK}
    \cup Ceilings(FED_BRACKETS, 1) \cup Ceilings(BC_BRACKETS, 1)
    \cup {N(-1000), N(1), Dec(47937, 50000000), N(9999), N(40001),
          Dec(332733, 96000000)}

\* incomes on both sides of every ceiling of the two tables
BracketIncomeInputs == TaxableInputs \cup {N(k * 10000) : k \in 0..MaxBracketK}

\* 2^-37, the distance between neighbouring Numbers from 32768 up to 65536
Spacing == Div(Div(N(1), N(1048576)), N(131072))

DeltaInputs == {N(0), Spacing, Dec(0, 1000000), N(1), N(2500), N(60000), N(200000)}

TestRates == {Zero, Dec(0, 10000000), Dec(0, 30000000)}

\* bracket tables with strictly increasing ceilings and an open last bracket
BracketTables ==
  {FED_BRACKETS, BC_BRACKETS}
    \cup {<< <<POSITIVE_INFINITY, r>> >> : r \in TestRates}
    \cup {<< <<N(10000), r1>>, <<POSITIVE_INFINITY, r2>> >> : r1 \in TestRates, r2 \in TestRates}
    \cup {<< <<N(10000), r1>>, <<N(40000), r2>>, <<POSITIVE_INFINITY, r1>> >> :
            r1 \in TestRates, r2 \in TestRates}

ProfitInputs ==
  {N(k * 25000) : k \in 0..MaxProfitK}
    \cup {N(-250000), N(-1), N(1), N(499999), N(500001), N(123457), Dec(600000, 50000000)}

IncomeInputs ==
  {N(k * 5000) : k \in 0..MaxIncomeK}
    \cup {N(-10000), N(1), N(3500), N(3501), N(71300), N(76400), N(81200), N(252752), N(1000000)}

CashInputs ==
  {N(k * 50000) : k \in 0..MaxCashK}
    \cup {N(-5000), N(1000), Dec(68556, 22864000), N(300000), N(1000000)}

PairCashInputs == {N(k * 100000) : k \in 0..MaxPairCashK} \cup {N(-5000)}

BizInputs == {N(k * 200000) : k \in 0..MaxBizK} \cup {N(-100000)}

ExpenseInputs == {N(0), N(20000)}

DivIncomeInputs == {N(k * 200000) : k \in 0..MaxDivIncomeK} \cup {N(-50000), N(100000)}

\* 78594.59615 is 0.009 above the most that the pools of a 100000 profit can pay
DivCashInputs ==
  {N(k * 75000) : k \in 0..MaxDivCashK}
    \cup {N(-5000), N(10), N(600000), Dec(78594, 59615000)}

\* calls with cents and fractions of a cent: pools of 2.19 and less, targets next
\* to what a pool can pay, and pools whose sum is not a Number; calls that leave
\* otherExpenses out or pass NaN for it
DivCases ==
  {[fn |-> "calculateIncorporatedDividends", businessIncome |-> c[1],
    personalCashNeeded |-> c[2], otherExpenses |-> c[3]] :
     c \in {<<N(500003), Dec(2, 20000000), Zero>>,
            <<Dec(500005, 12000000), Dec(3, 74760000), Zero>>,
            <<N(500007), Dec(5, 12000000), Zero>>,
            <<Dec(500000, 50000000), Dec(0, 24000000), Zero>>,
            <<Dec(2, 25000000), Dec(2, 1250000), Zero>>,
            <<Dec(0, 30000000), Dec(0, 24000000), Zero>>,
            <<N(767334), N(211850), Zero>>,
            <<N(1067591), N(2000000), N(20000)>>,
            <<N(100000), N(50000), undefined>>,
            <<N(100000), N(50000), NaN>>,
            <<N(800000), N(300000), NaN>>}}

\* gross earnings on both sides of the exemption and of the two ceilings
GrossInputs ==
  {N(k * 1000) : k \in 0..MaxGrossK}
    \cup {N(-5000), N(3500), Dec(3500, 1000000), N(3501), N(71300), Dec(71300, 1000000),
          Dec(16123, 71000000), Dec(13970, 79000000), N(73461), N(81200), N(81201),
          N(1000000)}

\* gross salaries from 0 up, the contribution ceilings and the bracket ceilings
NetGrossInputs ==
  {N(k * 5000) : k \in 0..MaxNetK}
    \cup Ceilings(FED_BRACKETS, 1) \cup Ceilings(BC_BRACKETS, 1)
    \cup {Cent, N(3500), N(12580), N(16103), N(60922), N(71300), N(81200), N(1000000)}

\* cash dividends of either class, from nothing to 200000, a negative amount and
\* an amount with cents
DivTaxInputs ==
  {N(k * 25000) : k \in 0..MaxDivTaxK} \cup {N(-1000), N(10000), Dec(12345, 67000000)}

(***************************************************************************)
(* The calls                                                               *)
(***************************************************************************)
InitTax ==
  /\ pc = "call"
  /\ inp \in [fn : {"progressiveTax"}, taxable : TaxableInputs, d : DeltaInputs,
              brackets : BracketTables]
  /\ sol = NoSol
  /\ out = NoOut

InitBrackets ==
  /\ pc = "call"
  /\ inp \in [fn : {"taxFromBrackets"}, income : BracketIncomeInputs,
              brackets : {FED_BRACKETS_2025, BC_BRACKETS_2025}]
  /\ sol = NoSol
  /\ out = NoOut

InitCorp ==
  /\ pc = "call"
  /\ inp \in [fn : {"computeCorporateTaxesBC"}, profitBeforeTax : ProfitInputs]
  /\ sol = NoSol
  /\ out = NoOut

InitUninc ==
  /\ pc = "call"
  /\ inp \in [fn : {"calculateUnincorporated"}, businessIncome : IncomeInputs]
  /\ sol = NoSol
  /\ out = NoOut

InitSalary ==
  /\ pc = "call"
  /\ inp \in [fn : {"calculateIncorporatedSalary"}, businessIncome : BizInputs,
              personalCashNeeded : CashInputs, otherExpenses : ExpenseInputs]
            \cup
            [fn : {"calculateIncorporatedSalary"}, businessIncome : {N(200000)},
             personalCashNeeded : {N(50000)}, otherExpenses : {undefined, NaN}]
            \cup
            [fn : {"solveGrossForNet"}, personalCashNeeded : {N(-5000), N(100000)},
             opts : CapOptions]
            \cup
            [fn : {"solveGrossForNet"}, personalCashNeeded : {N(100000)},
             opts : ToleranceOptions \cup {null}]
            \cup
            [fn : {"solveGrossForNet"}, personalCashNeeded : {Dec(68556, 22864000)},
             opts : {undefined, [initialHigh |-> Dec(90000, 1000000)]}]
            \cup
            [fn : {"solveGrossForNet"}, personalCashNeeded : {LargeTarget, TopTarget},
             opts : {undefined}]
            \cup
            [fn : {"solveGrossForNet"}, personalCashNeeded : {NaN, N(1)},
             opts : {[maxIter |-> N(MaxCapIter), initialHigh |-> TopTarget],
                     [maxIter |-> N(MaxCapIter), initialHigh |-> NaN]}]
  /\ sol = NoSol
  /\ out = NoOut

\* a call of calculateIncorporatedSalary that a second call, with the same
\* personalCashNeeded, will follow; or a call of the solver alone with its options
InitSalaryTwice ==
  /\ pc = "call"
  /\ inp \in [fn : {"calculateIncorporatedSalary"}, businessIncome : BizInputs,
              personalCashNeeded : PairCashInputs, otherExpenses : ExpenseInputs,
              previous : {NoOut}]
            \cup
            [fn : {"solveGrossForNet"}, personalCashNeeded : {N(100000)},
             opts : [maxIter : {N(MaxCapIter), N(100)}, initialHigh : {undefined, Cent}],
             previous : {NoOut}]
  /\ sol = NoSol
  /\ out = NoOut

InitDiv ==
  /\ pc = "call"
  /\ inp \in [fn : {"calculateIncorporatedDividends"}, businessIncome : DivIncomeInputs,
              personalCashNeeded : DivCashInputs, otherExpenses : ExpenseInputs]
            \cup DivCases
  /\ sol = NoSol
  /\ out = NoOut

InitCpp ==
  /\ pc = "call"
  /\ inp \in [fn : {"splitCPPBases", "cppTaxTreatmentForUnincorporated",
                    "cppForEmployeeSalary"},
              gross : GrossInputs]
  /\ sol = NoSol
  /\ out = NoOut

InitNet ==
  /\ pc = "call"
  /\ inp \in [fn : {"netFromGross"}, gross : NetGrossInputs, d : DeltaInputs]
  /\ sol = NoSol
  /\ out = NoOut

InitDivTax ==
  /\ pc = "call"
  /\ inp \in [fn : {"personalDividendTaxCombined"}, eligibleCash : DivTaxInputs,
              nonEligibleCash : DivTaxInputs]
            \cup
            [fn : {"personalDividendTax"}, divCash : DivTaxInputs,
             type : {"eligible", "nonEligible"}]
  /\ sol = NoSol
  /\ out = NoOut

\* progressiveTax applied to taxable and to taxable + d
CallProgressiveTax ==
  /\ pc = "call"
  /\ inp.fn = "progressiveTax"
  /\ out' = [tax |-> progressiveTax(inp.taxable, inp.brackets),
             taxMore |-> progressiveTax(Add(inp.taxable, inp.d), inp.brackets)]
  /\ pc' = "done"
  /\ UNCHANGED <<inp, sol>>

CallTaxFromBrackets ==
  /\ pc = "call"
  /\ inp.fn = "taxFromBrackets"
  /\ out' = [tax |-> taxFromBrackets(inp.income, inp.brackets)]
  /\ pc' = "done"
  /\ UNCHANGED <<inp, sol>>

CallCorporateTax ==
  /\ pc = "call"
  /\ inp.fn = "computeCorporateTaxesBC"
  /\ out' = computeCorporateTaxesBC(inp.profitBeforeTax)
  /\ pc' = "done"
  /\ UNCHANGED <<inp, sol>>

CallUnincorporated ==
  /\ pc = "call"
  /\ inp.fn = "calculateUnincorporated"
  /\ out' = calculateUnincorporated(inp)
  /\ pc' = "done"
  /\ UNCHANGED <<inp, sol>>

CallSplitCPPBases ==
  /\ pc = "call"
  /\ inp.fn = "splitCPPBases"
  /\ out' = splitCPPBases(inp.gross)
  /\ pc' = "done"
  /\ UNCHANGED <<inp, sol>>

CallCppTaxTreatmentForUnincorporated ==
  /\ pc = "call"
  /\ inp.fn = "cppTaxTreatmentForUnincorporated"
  /\ out' = cppTaxTreatmentForUnincorporated(inp.gross)
  /\ pc' = "done"
  /\ UNCHANGED <<inp, sol>>

CallCppForEmployeeSalary ==
  /\ pc = "call"
  /\ inp.fn = "cppForEmployeeSalary"
  /\ out' = cppForEmployeeSalary(inp.gross)
  /\ pc' = "done"
  /\ UNCHANGED <<inp, sol>>

\* netFromGross applied to gross and to gross + d
CallNetFromGross ==
  /\ pc = "call"
  /\ inp.fn = "netFromGross"
  /\ out' = [net |-> netFromGross(inp.gross).net,
             netMore |-> netFromGross(Add(inp.gross, inp.d)).net]
  /\ pc' = "done"
  /\ UNCHANGED <<inp, sol>>

CallPersonalDividendTaxCombined ==
  /\ pc = "call"
  /\ inp.fn = "personalDividendTaxCombined"
  /\ out' = personalDividendTaxCombined(inp.eligibleCash, inp.nonEligibleCash)
  /\ pc' = "done"
  /\ UNCHANGED <<inp, sol>>

CallPersonalDividendTax ==
  /\ pc = "call"
  /\ inp.fn = "personalDividendTax"
  /\ out' = personalDividendTax(inp.divCash, inp.type)
  /\ pc' = "done"
  /\ UNCHANGED <<inp, sol>>

DividendsBegin ==
  /\ pc = "call"
  /\ inp.fn = "calculateIncorporatedDividends"
  /\ sol' = dividendsBegin(inp)
  /\ pc' = "solveEligible"
  /\ UNCHANGED <<inp, out>>

EligibleStep ==
  /\ pc = "solveEligible"
  /\ ~sol.loop.returned
  /\ sol' = [sol EXCEPT !.loop = solveEligibleStep(sol.loop, sol.target, Zero, sol.pools.elCap)]
  /\ UNCHANGED <<pc, inp, out>>

\* eligible dividends alone meet the target
MixEligibleOnly ==
  /\ pc = "solveEligible"
  /\ sol.loop.returned
  /\ eligibleAloneMeets(sol.loop.value, sol.target)
  /\ sol' = [sol EXCEPT !.eligibleDividends = sol.loop.value]
  /\ pc' = "mixed"
  /\ UNCHANGED <<inp, out>>

\* faulty variant: the top-up is solved with no eligible dividend paid at all
MixTopUpNonEligibleOnly ==
  /\ pc = "solveEligible"
  /\ sol.loop.returned
  /\ ~eligibleAloneMeets(sol.loop.value, sol.target)
  /\ sol' = [sol EXCEPT !.eligibleDividends = Zero,
                        !.loop = solveNonEligibleEntry(sol.target, Zero, sol.pools.neCap)]
  /\ pc' = "solveNonEligible"
  /\ UNCHANGED <<inp, out>>

\* the full eligible capacity, topped up with non-eligible dividends
MixTopUp ==
  /\ pc = "solveEligible"
  /\ sol.loop.returned
  /\ ~eligibleAloneMeets(sol.loop.value, sol.target)
  /\ sol' = [sol EXCEPT !.eligibleDividends = sol.pools.elCap,
                        !.loop = solveNonEligibleEntry(sol.target, sol.pools.elCap,
                                                       sol.pools.neCap)]
  /\ pc' = "solveNonEligible"
  /\ UNCHANGED <<inp, out>>

NonEligibleStep ==
  /\ pc = "solveNonEligible"
  /\ ~sol.loop.returned
  /\ sol' = [sol EXCEPT !.loop = solveNonEligibleStep(sol.loop, sol.target,
                                                      sol.eligibleDividends, sol.pools.neCap)]
  /\ UNCHANGED <<pc, inp, out>>

NonEligibleDone ==
  /\ pc = "solveNonEligible"
  /\ sol.loop.returned
  /\ sol' = [sol EXCEPT !.nonEligibleDividends = Min(sol.loop.value, sol.pools.neCap)]
  /\ pc' = "mixed"
  /\ UNCHANGED <<inp, out>>

DividendsFinish ==
  /\ pc = "mixed"
  /\ out' = dividendResult(inp, sol)
  /\ pc' = "done"
  /\ UNCHANGED <<inp, sol>>

SolveBegin ==
  /\ pc = "call"
  /\ inp.fn \in {"calculateIncorporatedSalary", "solveGrossForNet"}
  /\ sol' = solveInit(inp.personalCashNeeded, optsOf(inp))
  /\ pc' = "expand"
  /\ UNCHANGED <<inp, out>>

ExpandDouble ==
  /\ pc = "expand"
  /\ ~expandDone(sol, inp.personalCashNeeded)
  /\ sol' = [sol EXCEPT !.high = Mul(sol.high, N(2)), !.i = sol.i + 1]
  /\ UNCHANGED <<pc, inp, out>>

ExpandDone ==
  /\ pc = "expand"
  /\ expandDone(sol, inp.personalCashNeeded)
  /\ sol' = [sol EXCEPT !.lastMid = sol.high]
  /\ pc' = "bisect"
  /\ UNCHANGED <<inp, out>>

BisectReturn ==
  /\ pc = "bisect"
  /\ LT(N(sol.iter), sol.maxIter)
  /\ \E mid \in {bisectMid(sol)} :
       \E solved \in {solveResult(mid, N(sol.iter))} :
         /\ bisectConverged(solved.net, mid, sol.lastMid, inp.personalCashNeeded,
                            sol.tolerance)
         /\ out' = solved
  /\ pc' = "solved"
  /\ UNCHANGED <<inp, sol>>

BisectNarrow ==
  /\ pc = "bisect"
  /\ LT(N(sol.iter), sol.maxIter)
  /\ \E mid \in {bisectMid(sol)} :
       \E solvedNet \in {netFromGross(mid).net} :
         /\ ~bisectConverged(solvedNet, mid, sol.lastMid, inp.personalCashNeeded,
                             sol.tolerance)
         /\ sol' = bisectNarrow(sol, mid, solvedNet, inp.personalCashNeeded)
  /\ UNCHANGED <<pc, inp, out>>

BisectCapped ==
  /\ pc = "bisect"
  /\ ~LT(N(sol.iter), sol.maxIter)
  /\ out' = solveResult(sol.lastMid, sol.maxIter)
  /\ pc' = "solved"
  /\ UNCHANGED <<inp, sol>>

SalaryFinish ==
  /\ pc = "solved"
  /\ inp.fn = "calculateIncorporatedSalary"
  /\ out' = salaryResult(inp, out)
  /\ pc' = "done"
  /\ UNCHANGED <<inp, sol>>

\* the caller's second call: other businessIncome or otherExpenses, the same
\* personalCashNeeded; the first call's parameters and result are kept to compare
CallAgain ==
  /\ pc = "done"
  /\ inp.fn = "calculateIncorporatedSalary"
  /\ inp.previous = NoOut
  /\ \E businessIncome \in BizInputs, otherExpenses \in ExpenseInputs :
       /\ <<businessIncome, otherExpenses>> # <<inp.businessIncome, inp.otherExpenses>>
       /\ inp' = [inp EXCEPT !.businessIncome = businessIncome,
                             !.otherExpenses = otherExpenses,
                             !.previous = [params |-> inp, result |-> out]]
  /\ pc' = "call"
  /\ sol' = NoSol
  /\ out' = NoOut

NextTax == CallProgressiveTax

NextBrackets == CallTaxFromBrackets

NextCorp == CallCorporateTax

NextUninc == CallUnincorporated

NextCpp ==
  \/ CallSplitCPPBases
  \/ CallCppTaxTreatmentForUnincorporated
  \/ CallCppForEmployeeSalary

NextNet == CallNetFromGross

NextDivTax == CallPersonalDividendTaxCombined \/ CallPersonalDividendTax

NextPersonalTax == NextNet \/ NextDivTax

NextDiv ==
  \/ DividendsBegin
  \/ EligibleStep
  \/ MixEligibleOnly
  \/ MixTopUp
  \/ NonEligibleStep
  \/ NonEligibleDone
  \/ DividendsFinish

NextDividendTax == NextDivTax \/ NextDiv

NextSalary ==
  \/ SolveBegin
  \/ ExpandDouble
  \/ ExpandDone
  \/ BisectReturn
  \/ BisectNarrow
  \/ BisectCapped
  \/ SalaryFinish

NextSalaryTwice == NextSalary \/ CallAgain

Init ==
  \/ InitTax \/ InitCorp \/ InitUninc \/ InitSalary \/ InitDiv \/ InitCpp \/ InitNet
  \/ InitDivTax \/ InitBrackets

Next ==
  \/ CallProgressiveTax
  \/ CallCorporateTax
  \/ CallUnincorporated
  \/ NextDiv
  \/ NextCpp
  \/ CallNetFromGross
  \/ NextDivTax
  \/ CallTaxFromBrackets
  \/ NextSalary

Spec == Init /\ [][Next]_vars

SpecTax == InitTax /\ [][NextTax]_vars

SpecBrackets == InitBrackets /\ [][NextBrackets]_vars

SpecCorp == InitCorp /\ [][NextCorp]_vars

SpecUninc == InitUninc /\ [][NextUninc]_vars

SpecSalary == InitSalary /\ [][NextSalary]_vars

SpecDiv == InitDiv /\ [][NextDiv]_vars

SpecSalaryTwice == InitSalaryTwice /\ [][NextSalaryTwice]_vars

SpecCpp == InitCpp /\ [][NextCpp]_vars

SpecNet == InitNet /\ [][NextNet]_vars

InitPersonalTax == InitNet \/ InitDivTax

SpecPersonalTax == InitPersonalTax /\ [][NextPersonalTax]_vars

InitDividendTax == InitDivTax \/ InitDiv

SpecDividendTax == InitDividendTax /\ [][NextDividendTax]_vars

(***************************************************************************)
(* Properties                                                              *)
(***************************************************************************)
\* the upper end of solveGrossForNet's search range once the doubling loop has ended
RECURSIVE expandedHigh(_, _, _)
expandedHigh(high, personalCashNeeded, i) ==
  IF i < 20 /\ LT(netFromGross(high).net, personalCashNeeded)
  THEN expandedHigh(Mul(high, N(2)), personalCashNeeded, i + 1)
  ELSE high

targetReachable(personalCashNeeded) ==
  GE(netFromGross(expandedHigh(Max(N(500000), Mul(personalCashNeeded, N(2))),
                               personalCashNeeded, 0)).net,
     personalCashNeeded)

\* the tolerance, the cap and the first search range solveGrossForNet works with
\* in this call
callSetup == solveInit(inp.personalCashNeeded, optsOf(inp))

\* this call leaves tolerance, maxIter and initialHigh to their defaults
defaultSearch ==
  /\ callSetup.tolerance = Cent
  /\ callSetup.maxIter = N(100)
  /\ optionOf(optsOf(inp), "initialHigh") \in {undefined, null}

\* the amounts up to which the rounding of a result is bounded by RoundingSlack
AmountRange == N(10000000)

\* C1 as stated: for a target >= 0 that the doubled search range reaches,
\* solveGrossForNet with tolerance 0.01 and maxIter 100 returns a gross salary
\* whose net is within 0.01 of the target, and so is the personalCash of
\* calculateIncorporatedSalary.
SolverRoundTrip ==
  (/\ pc \in {"solved", "done"}
   /\ defaultSearch
   /\ GE(inp.personalCashNeeded, Zero)
   /\ targetReachable(inp.personalCashNeeded))
  => IF pc = "solved"
     THEN /\ out.net = netFromGross(out.grossSalary).net
          /\ LE(Abs(Sub(out.net, inp.personalCashNeeded)), Cent)
     ELSE /\ inp.fn = "calculateIncorporatedSalary"
          /\ LE(Abs(Sub(out.personalCash, inp.personalCashNeeded)), Cent)

\* C1 as amended: for a target with 0 <= personalCashNeeded <= 10000000 that the
\* doubled search range reaches, solveGrossForNet with tolerance 0.01 and maxIter
\* 100 returns a gross salary whose net is within 0.01 of the target, and so is the
\* personalCash of calculateIncorporatedSalary (far above that range neighbouring
\* Numbers are more than 0.01 apart and the search ends on its step size).
SolverRoundTripInRange ==
  (/\ pc \in {"solved", "done"}
   /\ defaultSearch
   /\ GE(inp.personalCashNeeded, Zero)
   /\ LE(inp.personalCashNeeded, AmountRange)
   /\ targetReachable(inp.personalCashNeeded))
  => IF pc = "solved"
     THEN /\ out.net = netFromGross(out.grossSalary).net
          /\ LE(Abs(Sub(out.net, inp.personalCashNeeded)), Cent)
     ELSE /\ inp.fn = "calculateIncorporatedSalary"
          /\ LE(Abs(Sub(out.personalCash, inp.personalCashNeeded)), Cent)

\* a 100000 target solved by bisection: more than twenty halvings, salary above 130000
SolverRoundTripWitness ==
  /\ pc = "done"
  /\ inp.fn = "calculateIncorporatedSalary"
  /\ inp.personalCashNeeded = N(100000)
  /\ sol.iter >= 20
  /\ LT(N(130000), out.grossSalary)
  /\ LE(Abs(Sub(out.personalCash, N(100000))), Cent)

\* the otherExpenses of a call as an amount: 0 when the call leaves it out or
\* passes what is not a number
expensesRead(params) == OrElse(Default(params.otherExpenses, Zero), Zero)

\* the two after-tax pools as the contract states them
statedPools(params) ==
  LET profit == Max(Zero, Sub(params.businessIncome, expensesRead(params)))
      sbdBase == Min(profit, N(500000))
      genBase == Max(Zero, Sub(profit, N(500000)))
  IN [neCap |-> Sub(sbdBase, Mul(Dec(0, 11000000), sbdBase)),
      elCap |-> Sub(genBase, Mul(Dec(0, 27000000), genBase))]

\* C2: for every input of calculateIncorporatedDividends the returned mix lies in
\* the pools: 0 <= eligibleDividends <= elCap and 0 <= nonEligibleDividends <= neCap.
DividendMixWithinPools ==
  pc = "done" =>
    /\ LE(Zero, out.eligibleDividends)
    /\ LE(out.eligibleDividends, statedPools(inp).elCap)
    /\ LE(Zero, out.nonEligibleDividends)
    /\ LE(out.nonEligibleDividends, statedPools(inp).neCap)

\* the eligible pool is used up and a part of the non-eligible pool tops it up
DividendMixWithinPoolsWitness ==
  /\ pc = "done"
  /\ LT(Zero, statedPools(inp).elCap)
  /\ out.eligibleDividends = statedPools(inp).elCap
  /\ LT(Zero, out.nonEligibleDividends)
  /\ LT(out.nonEligibleDividends, statedPools(inp).neCap)

\* C3: whenever the personalCash returned by calculateIncorporatedDividends is more
\* than 0.01 short of max(0, personalCashNeeded), the flag _cappedByAfterTaxProfit
\* is true.
UnmetTargetIsFlagged ==
  (/\ pc = "done"
   /\ LT(Add(out.personalCash, Cent), Max(Zero, inp.personalCashNeeded)))
  => out._cappedByAfterTaxProfit

\* the ceilings rise strictly from zero and only the last bracket is open
RECURSIVE risingFrom(_, _, _)
risingFrom(brackets, i, prev) ==
  IF i = Len(brackets) THEN IsInf(brackets[i][1])
  ELSE /\ ~IsInf(brackets[i][1])
       /\ LT(prev, brackets[i][1])
       /\ risingFrom(brackets, i + 1, brackets[i][1])

IsBracketTable(brackets) == Len(brackets) >= 1 /\ risingFrom(brackets, 1, Zero)

\* the sum, taken in ascending order from bracket i on top of sum, of
\* max(0, min(taxable, ceiling_i) - ceiling_{i-1}) * rate_i
RECURSIVE bandSum(_, _, _, _, _)
bandSum(taxable, brackets, i, prev, sum) ==
  IF i > Len(brackets) THEN sum
  ELSE bandSum(taxable, brackets, i + 1, brackets[i][1],
               Add(sum, Mul(Max(Zero, Sub(Min(taxable, brackets[i][1]), prev)),
                            brackets[i][2])))

\* C4: for taxable >= 0 and a table with strictly rising ceilings and an open last
\* bracket, progressiveTax is the sum over all brackets, in ascending order, of
\* max(0, min(taxable, ceiling_i) - ceiling_{i-1}) * rate_i with ceiling_0 = 0.
ProgressiveTaxIsBandSum ==
  (pc = "done" /\ GE(inp.taxable, Zero) /\ IsBracketTable(inp.brackets))
  => out.tax = bandSum(inp.taxable, inp.brackets, 1, Zero, Zero)

\* an amount above every finite BC ceiling, taxed in the open bracket
ProgressiveTaxIsBandSumWitness ==
  /\ pc = "done"
  /\ inp.brackets = BC_BRACKETS
  /\ inp.taxable = N(300000)
  /\ out.tax = bandSum(N(300000), BC_BRACKETS, 1, Zero, Zero)
  /\ LT(progressiveTax(N(252752), BC_BRACKETS), out.tax)

topRate(brackets) == brackets[Len(brackets)][2]

\* more than the Number operations of one result can lose to rounding on amounts
\* up to AmountRange
RoundingSlack == Dec(0, 100)

\* C5 as stated: on the federal and BC tables progressiveTax(0) = 0 and, for x >= 0
\* and d >= 0, 0 <= progressiveTax(x + d) - progressiveTax(x) <= topRate * d.
ProgressiveTaxMonotone ==
  (/\ pc = "done"
   /\ inp.brackets \in {FED_BRACKETS, BC_BRACKETS}
   /\ GE(inp.taxable, Zero)
   /\ GE(inp.d, Zero))
  => /\ inp.taxable = Zero => out.tax = Zero
     /\ LE(out.tax, out.taxMore)
     /\ LE(Sub(out.taxMore, out.tax), Mul(topRate(inp.brackets), inp.d))

\* C5 as amended: on the federal and BC tables progressiveTax(0) = 0 and, for
\* x >= 0 and d >= 0 with x + d <= 10000000, progressiveTax(x) <=
\* progressiveTax(x + d) and progressiveTax(x + d) - progressiveTax(x) <=
\* topRate * d + 0.000001 (the rounding of the Number operations).
ProgressiveTaxMonotoneRounded ==
  (/\ pc = "done"
   /\ inp.brackets \in {FED_BRACKETS, BC_BRACKETS}
   /\ GE(inp.taxable, Zero)
   /\ GE(inp.d, Zero)
   /\ LE(Add(inp.taxable, inp.d), AmountRange))
  => /\ inp.taxable = Zero => out.tax = Zero
     /\ LE(out.tax, out.taxMore)
     /\ LE(Sub(out.taxMore, out.tax),
           Add(Mul(topRate(inp.brackets), inp.d), RoundingSlack))

\* one cent on top of 332733.96, in the open federal bracket: the computed tax
\* rises by a little more than 0.33 of a cent
ProgressiveTaxMonotoneWitness ==
  /\ pc = "done"
  /\ inp.brackets = FED_BRACKETS
  /\ inp.taxable = Dec(332733, 96000000)
  /\ inp.d = Cent
  /\ LT(out.tax, out.taxMore)
  /\ LT(Mul(topRate(FED_BRACKETS), Cent), Sub(out.taxMore, out.tax))
  /\ LT(Sub(out.taxMore, out.tax), Cent)

\* C6: computeCorporateTaxesBC(profit) has p = max(0, profit), sbdPortion =
\* min(p, 500000), genPortion = max(0, p - 500000), taxOnSBD = 0.11 * sbdPortion,
\* taxOnGen = 0.27 * genPortion, corporateTaxes their sum, effectiveRate =
\* corporateTaxes / p for p > 0 and 0 otherwise; 600000 gives 82000 and a negative
\* profit gives zeros.
CorporateTaxFormula ==
  pc = "done" =>
    LET p == Max(Zero, inp.profitBeforeTax)
        sbd == Min(p, N(500000))
        gen == Max(Zero, Sub(p, N(500000)))
    IN /\ out.profitBeforeTax = p
       /\ out.sbdPortion = sbd
       /\ out.genPortion = gen
       /\ out.taxOnSBD = Mul(Dec(0, 11000000), sbd)
       /\ out.taxOnGen = Mul(Dec(0, 27000000), gen)
       /\ out.corporateTaxes = Add(out.taxOnSBD, out.taxOnGen)
       /\ out.effectiveRate = (IF LT(Zero, p) THEN Div(out.corporateTaxes, p) ELSE Zero)
       /\ inp.profitBeforeTax = N(600000) => out.corporateTaxes = N(82000)
       /\ LT(inp.profitBeforeTax, Zero) =>
            /\ out.profitBeforeTax = Zero /\ out.sbdPortion = Zero /\ out.genPortion = Zero
            /\ out.taxOnSBD = Zero /\ out.taxOnGen = Zero
            /\ out.corporateTaxes = Zero /\ out.effectiveRate = Zero

\* the worked example: 600000 of profit, 55000 + 27000 of tax
CorporateTaxFormulaWitness ==
  /\ pc = "done"
  /\ inp.profitBeforeTax = N(600000)
  /\ out.taxOnSBD = N(55000)
  /\ out.taxOnGen = N(27000)
  /\ out.corporateTaxes = N(82000)

\* C7: for businessIncome >= 0 calculateUnincorporated returns personalCash =
\* grossSalary - personalTaxes - totalCPP, so that personalCash + totalTaxes +
\* totalCPP = grossSalary.
UnincCashDeductsWholeContribution ==
  (pc = "done" /\ GE(inp.businessIncome, Zero))
  => /\ out.personalCash = Sub(Sub(out.grossSalary, out.personalTaxes), out.totalCPP)
     /\ Add(Add(out.personalCash, out.totalTaxes), out.totalCPP) = out.grossSalary

\* C8: for businessIncome >= 0 calculateUnincorporated returns taxableIncome =
\* max(0, gross - cppTaxTreatmentForUnincorporated(gross).personalDeduction).
UnincTaxableIncomeDeductsSelfEmployedPortion ==
  (pc = "done" /\ GE(inp.businessIncome, Zero))
  => out.taxableIncome =
       Max(Zero, Sub(inp.businessIncome,
                     cppTaxTreatmentForUnincorporated(inp.businessIncome).personalDeduction))

\* C9: for businessIncome >= 0 the federalTax and provincialTax returned by
\* calculateUnincorporated are the bracket tax on the taxable income less the
\* credits (basic personal amount plus employee-base contribution, at the lowest
\* bracket rate), floored at zero, and personalTaxes is their sum.
UnincTaxesNetOfCredits ==
  (pc = "done" /\ GE(inp.businessIncome, Zero))
  => LET baseEE == cppTaxTreatmentForUnincorporated(inp.businessIncome).credits.baseEE
         fedCredits == Mul(Add(FED_BPA, baseEE), FED_BRACKETS[1][2])
         bcCredits == Mul(Add(BC_BPA, baseEE), BC_BRACKETS[1][2])
     IN /\ out.federalTax =
             Max(Zero, Sub(progressiveTax(out.taxableIncome, FED_BRACKETS), fedCredits))
        /\ out.provincialTax =
             Max(Zero, Sub(progressiveTax(out.taxableIncome, BC_BRACKETS), bcCredits))
        /\ out.personalTaxes = Add(out.federalTax, out.provincialTax)

\* C10: for every businessIncome calculateUnincorporated returns corporateTaxes,
\* corporateCPP, corporateCash and both dividends as 0, and grossSalary =
\* businessIncome.
UnincHasNoCorporateSide ==
  pc = "done" =>
    /\ out.corporateTaxes = Zero
    /\ out.corporateCPP = Zero
    /\ out.corporateCash = Zero
    /\ out.eligibleDividends = Zero
    /\ out.nonEligibleDividends = Zero
    /\ out.grossSalary = inp.businessIncome

\* the three scenario calculators
ScenarioCalculators ==
  {"calculateUnincorporated", "calculateIncorporatedSalary", "calculateIncorporatedDividends"}

\* the tax, contribution and cash fields of a scenario result
TaxContributionCashFields ==
  {"personalTaxes", "corporateTaxes", "totalTaxes", "federalTax", "provincialTax",
   "personalCPP", "corporateCPP", "totalCPP",
   "personalCash", "corporateCash", "totalCash"}

\* C11: in each scenario calculator, for personalCashNeeded >= 0, businessIncome = 0
\* makes every tax field, every contribution field and every cash field of the
\* result 0.
ZeroIncomeZeroFields ==
  (/\ pc = "done"
   /\ inp.fn \in ScenarioCalculators
   /\ inp.businessIncome = Zero
   /\ (inp.fn # "calculateUnincorporated" => GE(inp.personalCashNeeded, Zero)))
  => \A f \in TaxContributionCashFields : out[f] = Zero

\* C12: businessIncome <= 0 gives totalTaxRate = 0 in each scenario calculator and
\* profit <= 0 gives effectiveRate = 0 in computeCorporateTaxesBC, whatever the
\* other inputs are.
ZeroDenominatorRateIsZero ==
  pc = "done" =>
    /\ (inp.fn \in ScenarioCalculators /\ LE(inp.businessIncome, Zero))
         => out.totalTaxRate = Zero
    /\ (inp.fn = "computeCorporateTaxesBC" /\ LE(inp.profitBeforeTax, Zero))
         => out.effectiveRate = Zero

\* a salary is paid out of no business income: taxes are due, the rate is 0
ZeroDenominatorRateIsZeroWitness ==
  /\ pc = "done"
  /\ inp.fn = "calculateIncorporatedSalary"
  /\ inp.businessIncome = Zero
  /\ inp.personalCashNeeded = N(100000)
  /\ LT(Zero, out.totalTaxes)
  /\ out.totalTaxRate = Zero

\* the amount fields of a scenario result
AmountFields ==
  TaxContributionCashFields
    \cup {"grossSalary", "eligibleDividends", "nonEligibleDividends", "rrspRoom"}

\* C13: a negative input of a scenario calculator gives the result of the same call
\* with 0 in its place (written out for calculateUnincorporated, whose only input
\* is businessIncome), and so no amount field of any scenario result is negative.
NegativeInputsAreClamped ==
  (pc = "done" /\ inp.fn \in ScenarioCalculators) =>
    /\ inp.fn = "calculateUnincorporated" =>
         out = calculateUnincorporated(
                 [inp EXCEPT !.businessIncome = Max(Zero, inp.businessIncome)])
    /\ \A f \in AmountFields : GE(out[f], Zero)

\* C14: for every gross, splitCPPBases returns t1Base = max(0, min(max(0, gross),
\* YMPE) - basicExemption) and t2Base = max(0, min(max(0, gross), YAMPE) - YMPE);
\* t1Base is 0 up to the exemption and at most YMPE - basicExemption, t2Base is 0
\* up to YMPE and at most YAMPE - YMPE.
TierBases ==
  (pc = "done" /\ inp.fn = "splitCPPBases") =>
    LET g == Max(Zero, inp.gross)
        YMPE == N(71300)
        YAMPE == N(81200)
        basicExemption == N(3500)
    IN /\ out.t1Base = Max(Zero, Sub(Min(g, YMPE), basicExemption))
       /\ out.t2Base = Max(Zero, Sub(Min(g, YAMPE), YMPE))
       /\ LE(inp.gross, basicExemption) => out.t1Base = Zero
       /\ LE(Zero, out.t1Base) /\ LE(out.t1Base, Sub(YMPE, basicExemption))
       /\ LE(inp.gross, YMPE) => out.t2Base = Zero
       /\ LE(Zero, out.t2Base) /\ LE(out.t2Base, Sub(YAMPE, YMPE))

\* earnings between the two ceilings: a full tier-1 base and a part of tier 2
TierBasesWitness ==
  /\ pc = "done"
  /\ inp.fn = "splitCPPBases"
  /\ inp.gross = N(75000)
  /\ out.t1Base = N(67800)
  /\ out.t2Base = N(3700)

\* the six sub-amounts of a gross: base and enhanced on tier 1, tier 2, per side
subAmounts(gross) ==
  LET b == splitCPPBases(gross)
  IN [ee_base |-> Mul(b.t1Base, Dec(0, 4950000)),
      ee_enh |-> Mul(b.t1Base, Dec(0, 1000000)),
      ee_t2 |-> Mul(b.t2Base, Dec(0, 4000000)),
      er_base |-> Mul(b.t1Base, Dec(0, 4950000)),
      er_enh |-> Mul(b.t1Base, Dec(0, 1000000)),
      er_t2 |-> Mul(b.t2Base, Dec(0, 4000000))]

\* the two amounts differ by no more than the rounding slack
Near(x, y) == LE(Abs(Sub(x, y)), RoundingSlack)

\* C15 as stated: for every gross, cppTaxTreatmentForUnincorporated returns
\* credits.baseEE = employee-base, personalDeduction = employer-base + both enhanced
\* + both tier-2 sub-amounts, personalPaid = the sum of all six, and credits.baseEE
\* + personalDeduction = personalPaid.
SelfEmployedPartition ==
  (pc = "done" /\ inp.fn = "cppTaxTreatmentForUnincorporated") =>
    LET a == subAmounts(inp.gross)
    IN /\ out.credits.baseEE = a.ee_base
       /\ out.personalDeduction =
            Add(Add(Add(Add(a.er_base, a.ee_enh), a.er_enh), a.ee_t2), a.er_t2)
       /\ out.personalPaid =
            Add(Add(Add(Add(Add(a.ee_base, a.ee_enh), a.ee_t2), a.er_base), a.er_enh),
                a.er_t2)
       /\ Add(out.credits.baseEE, out.personalDeduction) = out.personalPaid

\* C15 as amended: for every gross, cppTaxTreatmentForUnincorporated returns
\* credits.baseEE = employee-base, personalDeduction = employer-base + both enhanced
\* + both tier-2 sub-amounts, personalPaid = the sum of all six, each sum taken in
\* that order, and credits.baseEE + personalDeduction is within 0.000001 of
\* personalPaid (the two sums round differently).
SelfEmployedPartitionRounded ==
  (pc = "done" /\ inp.fn = "cppTaxTreatmentForUnincorporated") =>
    LET a == subAmounts(inp.gross)
    IN /\ out.credits.baseEE = a.ee_base
       /\ out.personalDeduction =
            Add(Add(Add(Add(a.er_base, a.ee_enh), a.er_enh), a.ee_t2), a.er_t2)
       /\ out.personalPaid =
            Add(Add(Add(Add(Add(a.ee_base, a.ee_enh), a.ee_t2), a.er_base), a.er_enh),
                a.er_t2)
       /\ Near(Add(out.credits.baseEE, out.personalDeduction), out.personalPaid)

\* 13970.79 of earnings: about 518.30 credited and 727.72 deducted, which add up to
\* a Number just below the 1246.02401 paid
SelfEmployedPartitionWitness ==
  /\ pc = "done"
  /\ inp.fn = "cppTaxTreatmentForUnincorporated"
  /\ inp.gross = Dec(13970, 79000000)
  /\ LT(N(518), out.credits.baseEE)
  /\ LT(N(727), out.personalDeduction)
  /\ LT(Add(out.credits.baseEE, out.personalDeduction), out.personalPaid)
  /\ Near(Add(out.credits.baseEE, out.personalDeduction), out.personalPaid)

\* C16 as stated: for every gross, the self-employed personalPaid is 2 times the
\* employeePaid of cppForEmployeeSalary, and employeePaid = employerPaid.
SelfEmployedPaysTwice ==
  /\ (pc = "done" /\ inp.fn = "cppTaxTreatmentForUnincorporated") =>
       out.personalPaid = Mul(N(2), cppForEmployeeSalary(inp.gross).employeePaid)
  /\ (pc = "done" /\ inp.fn = "cppForEmployeeSalary") =>
       /\ out.employeePaid = out.employerPaid
       /\ out.employeePaid =
            LET a == subAmounts(inp.gross) IN Add(Add(a.ee_base, a.ee_enh), a.ee_t2)
       /\ cppTaxTreatmentForUnincorporated(inp.gross).personalPaid =
            Mul(N(2), out.employeePaid)

\* C16 as amended: for every gross, the self-employed personalPaid is within
\* 0.000001 of 2 times the employeePaid of cppForEmployeeSalary (the sum of six
\* sub-amounts rounds differently from twice the sum of three), and employeePaid =
\* employerPaid.
SelfEmployedPaysTwiceRounded ==
  /\ (pc = "done" /\ inp.fn = "cppTaxTreatmentForUnincorporated") =>
       Near(out.personalPaid, Mul(N(2), cppForEmployeeSalary(inp.gross).employeePaid))
  /\ (pc = "done" /\ inp.fn = "cppForEmployeeSalary") =>
       /\ out.employeePaid = out.employerPaid
       /\ out.employeePaid =
            LET a == subAmounts(inp.gross) IN Add(Add(a.ee_base, a.ee_enh), a.ee_t2)
       /\ Near(cppTaxTreatmentForUnincorporated(inp.gross).personalPaid,
               Mul(N(2), out.employeePaid))

\* earnings of 13970.79, inside tier 1: about 623.01 a side; the 1246.02 of the
\* self-employed is a Number just above twice the employee's
SelfEmployedPaysTwiceWitness ==
  /\ pc = "done"
  /\ inp.fn = "cppTaxTreatmentForUnincorporated"
  /\ inp.gross = Dec(13970, 79000000)
  /\ LT(N(1246), out.personalPaid)
  /\ LT(Mul(N(2), cppForEmployeeSalary(inp.gross).employeePaid), out.personalPaid)
  /\ Near(out.personalPaid, Mul(N(2), cppForEmployeeSalary(inp.gross).employeePaid))
  /\ cppForEmployeeSalary(inp.gross).employerPaid =
       cppForEmployeeSalary(inp.gross).employeePaid

\* C17: whenever businessIncome > 0, each scenario calculator returns totalTaxRate =
\* (totalTaxes + totalCPP) / businessIncome.
EffectiveRateIncludesContributions ==
  (pc = "done" /\ inp.fn \in ScenarioCalculators /\ LT(Zero, inp.businessIncome))
  => out.totalTaxRate = Div(Add(out.totalTaxes, out.totalCPP), inp.businessIncome)

\* C18: for businessIncome >= 0, personalCashNeeded >= 0 and otherExpenses >= 0,
\* every scenario calculator returns 0 <= totalTaxRate <= 1.
TotalTaxRateIsFraction ==
  (/\ pc = "done"
   /\ inp.fn \in ScenarioCalculators
   /\ GE(inp.businessIncome, Zero)
   /\ (inp.fn # "calculateUnincorporated" =>
         GE(inp.personalCashNeeded, Zero) /\ GE(Default(inp.otherExpenses, Zero), Zero)))
  => LE(Zero, out.totalTaxRate) /\ LE(out.totalTaxRate, N(1))

\* how far a call has come: called, doubling, bisecting, solved, done
phase ==
  CASE pc = "call" -> 0
    [] pc = "expand" -> 1
    [] pc = "bisect" -> 2
    [] pc = "solved" -> 3
    [] OTHER -> 4

\* a step leads to a later phase, or to the next round of the loop it is in
stepsOn ==
  \/ phase' > phase
  \/ pc = "expand" /\ pc' = "expand" /\ sol'.i = sol.i + 1
  \/ pc = "bisect" /\ pc' = "bisect" /\ sol'.iter = sol.iter + 1

\* the solver is at work on this call, or has returned
solving == pc \in {"expand", "bisect", "solved"}

\* neither an infinity nor NaN
IsFinite(x) == ~IsInf(x) /\ ~IsNaN(x)

\* 2^1000: amounts up to it can be doubled twenty-one times and added
SearchRange == Round(FALSE, Limbs(1), 1000)

\* 2^53: up to it a counter that goes up by one takes every whole value
CounterRange == Round(FALSE, Limbs(1), 53)

\* the target and the first high, when given, are Numbers of magnitude at most
\* 2^1000, and the cap is at most 2^53
searchInRange ==
  /\ LE(Abs(inp.personalCashNeeded), SearchRange)
  /\ \E initialHigh \in {optionOf(optsOf(inp), "initialHigh")} :
       initialHigh \in {undefined, null} \/ LE(Abs(initialHigh), SearchRange)
  /\ LE(callSetup.maxIter, CounterRange)

\* C19 as stated: for every personalCashNeeded and every maxIter >= 0,
\* solveGrossForNet evaluates netFromGross at most 20 times while doubling high and
\* makes at most maxIter bisection iterations (so it cannot run forever), and
\* returns a finite grossSalary with its net figures, lastMid when the cap is hit,
\* and iterations <= maxIter.
SolverTerminates ==
  (solving /\ GE(sol.maxIter, Zero))
  => /\ sol.i <= 20
     /\ LE(N(sol.iter), sol.maxIter)
     /\ pc = "solved" =>
          /\ LE(out.iterations, sol.maxIter)
          /\ IsFinite(out.grossSalary)
          /\ out.net = netFromGross(out.grossSalary).net
          /\ (out.iterations = sol.maxIter => out.grossSalary = sol.lastMid)

\* C19 as amended: for every personalCashNeeded and initialHigh, when given, of
\* magnitude at most 2^1000, every tolerance and every maxIter with 0 <= maxIter
\* <= 2^53, solveGrossForNet evaluates netFromGross at most 20 times while doubling
\* high and makes fewer than maxIter + 1 bisection iterations (every step leads to
\* a later phase or to the next round of a loop whose rounds are so bounded, so it
\* cannot run forever), and returns a finite grossSalary with its net figures,
\* lastMid when the cap is hit, and iterations <= maxIter.
SolverTerminatesInRange ==
  /\ [][stepsOn]_vars
  /\ []((solving /\ GE(sol.maxIter, Zero) /\ searchInRange)
        => /\ sol.i <= 20
           /\ LT(N(sol.iter), Add(sol.maxIter, N(1)))
           /\ pc = "solved" =>
                /\ LE(out.iterations, sol.maxIter)
                /\ IsFinite(out.grossSalary)
                /\ out.net = netFromGross(out.grossSalary).net
                /\ (out.iterations = sol.maxIter => out.grossSalary = sol.lastMid))

\* a cap of 2.5: the third iteration is made, the fourth is not, and the result is
\* the third midpoint with iterations 2.5
SolverTerminatesWitness ==
  /\ pc = "solved"
  /\ inp.fn = "solveGrossForNet"
  /\ inp.personalCashNeeded = N(100000)
  /\ searchInRange
  /\ sol.maxIter = Dec(2, 50000000)
  /\ sol.tolerance = Cent
  /\ sol.iter = 3
  /\ out.iterations = Dec(2, 50000000)
  /\ out.grossSalary = sol.lastMid
  /\ IsFinite(out.grossSalary)
  /\ LT(N(100000), out.net)

\* C20 as stated: for gross salaries 0 <= x <= y, netFromGross(x).net <= x and
\* netFromGross(x).net <= netFromGross(y).net.
NetIsMonotone ==
  (pc = "done" /\ inp.fn = "netFromGross" /\ GE(inp.gross, Zero) /\ GE(inp.d, Zero))
  => /\ LE(out.net, inp.gross)
     /\ LE(out.netMore, Add(inp.gross, inp.d))
     /\ LE(out.net, out.netMore)

\* C20 as amended: for gross salaries 0 <= x <= y <= 10000000, netFromGross(x).net
\* <= x and netFromGross(x).net <= netFromGross(y).net + 0.000001 (between two
\* salaries closer than the rounding of the result the computed net can fall).
NetIsMonotoneRounded ==
  (/\ pc = "done"
   /\ inp.fn = "netFromGross"
   /\ GE(inp.gross, Zero)
   /\ GE(inp.d, Zero)
   /\ LE(Add(inp.gross, inp.d), AmountRange))
  => /\ LE(out.net, inp.gross)
     /\ LE(out.netMore, Add(inp.gross, inp.d))
     /\ LE(out.net, Add(out.netMore, RoundingSlack))

\* from 60922 to the next Number above it: the computed net of about 48447.72 falls
\* by less than the slack, and stays below the salary
NetIsMonotoneWitness ==
  /\ pc = "done"
  /\ inp.fn = "netFromGross"
  /\ inp.gross = N(60922)
  /\ inp.d = Spacing
  /\ LT(inp.gross, Add(inp.gross, inp.d))
  /\ LT(out.netMore, out.net)
  /\ LE(out.net, Add(out.netMore, RoundingSlack))
  /\ LT(N(48447), out.netMore)
  /\ LT(out.net, N(60922))

\* the doubling loop of this call ended on a high whose net reaches the target
expandFound ==
  GE(netFromGross(expandedHigh(callSetup.high,
                               inp.personalCashNeeded, 0)).net,
     inp.personalCashNeeded)

\* C21 as stated: for personalCashNeeded >= 0 whose doubling phase found net(high)
\* >= target, at the start of every bisection iteration low <= high and
\* netFromGross(low).net <= target <= netFromGross(high).net; an iteration that does
\* not return never lowers low, never raises high, and halves high - low.
BisectionBracket ==
  /\ []((/\ pc = "bisect"
         /\ GE(inp.personalCashNeeded, Zero)
         /\ expandFound)
        => /\ LE(sol.low, sol.high)
           /\ LE(netFromGross(sol.low).net, inp.personalCashNeeded)
           /\ LE(inp.personalCashNeeded, netFromGross(sol.high).net))
  /\ [][(/\ pc = "bisect"
         /\ pc' = "bisect"
         /\ GE(inp.personalCashNeeded, Zero)
         /\ expandFound)
        => /\ LE(sol.low, sol'.low)
           /\ LE(sol'.high, sol.high)
           /\ Sub(sol'.high, sol'.low) = Div(Sub(sol.high, sol.low), N(2))]_vars

\* the first high is left to its default or is at most 10000000
firstHighInRange ==
  \E initialHigh \in {optionOf(optsOf(inp), "initialHigh")} :
    initialHigh \in {undefined, null} \/ LE(initialHigh, AmountRange)

\* C21 as amended: for 0 <= personalCashNeeded <= 10000000 and initialHigh, when
\* given, at most 10000000, whose doubling phase found net(high) >= target, at the
\* start of every bisection iteration low <= high and netFromGross(low).net <=
\* target <= netFromGross(high).net; an iteration that does not return never lowers
\* low, never raises high, and leaves high - low within 0.000001 of half of what it
\* was (the midpoint is rounded).
BisectionBracketRounded ==
  /\ []((/\ pc = "bisect"
         /\ GE(inp.personalCashNeeded, Zero)
         /\ LE(inp.personalCashNeeded, AmountRange)
         /\ firstHighInRange
         /\ expandFound)
        => /\ LE(sol.low, sol.high)
           /\ LE(netFromGross(sol.low).net, inp.personalCashNeeded)
           /\ LE(inp.personalCashNeeded, netFromGross(sol.high).net))
  /\ [][(/\ pc = "bisect"
         /\ pc' = "bisect"
         /\ GE(inp.personalCashNeeded, Zero)
         /\ LE(inp.personalCashNeeded, AmountRange)
         /\ firstHighInRange
         /\ expandFound)
        => /\ LE(sol.low, sol'.low)
           /\ LE(sol'.high, sol.high)
           /\ Near(Sub(sol'.high, sol'.low), Div(Sub(sol.high, sol.low), N(2)))]_vars

\* a target of 68556.22864 after four iterations between it and 180000.02, twice
\* the initial 90000.01: low has gone up past 89000 and high has come down below
\* 97000
BisectionBracketWitness ==
  /\ pc = "bisect"
  /\ inp.personalCashNeeded = Dec(68556, 22864000)
  /\ optionOf(optsOf(inp), "initialHigh") = Dec(90000, 1000000)
  /\ sol.iter = 4
  /\ LT(N(89000), sol.low)
  /\ LT(sol.high, N(97000))
  /\ LE(netFromGross(sol.low).net, inp.personalCashNeeded)
  /\ LE(inp.personalCashNeeded, netFromGross(sol.high).net)
  /\ sol.low # sol.high

\* C22: for every input of calculateIncorporatedDividends, nonEligibleDividends > 0
\* implies eligibleDividends = elCap: the whole eligible pool is paid out before
\* any non-eligible dividend.
EligibleFirst ==
  (pc = "done" /\ inp.fn = "calculateIncorporatedDividends"
     /\ LT(Zero, out.nonEligibleDividends))
  => out.eligibleDividends = dividendPools(inp.businessIncome, inp.otherExpenses).elCap

\* a profit of 600000 and a target of 150000: the eligible pool of 73000 is paid
\* out whole and a part of the non-eligible pool of 445000 tops it up
EligibleFirstWitness ==
  /\ pc = "done"
  /\ inp.fn = "calculateIncorporatedDividends"
  /\ inp.businessIncome = N(600000)
  /\ inp.otherExpenses = Zero
  /\ inp.personalCashNeeded = N(150000)
  /\ out.eligibleDividends = N(73000)
  /\ LT(Zero, out.nonEligibleDividends)
  /\ LT(out.nonEligibleDividends, N(445000))

\* C23: when calculateIncorporatedDividends flags its result as capped, both pools
\* are paid out in full (eligibleDividends = elCap, nonEligibleDividends = neCap)
\* and corporateCash = 0: the flag is never set while capacity is left unpaid.
CappedPaysBothPools ==
  (pc = "done" /\ inp.fn = "calculateIncorporatedDividends"
     /\ out._cappedByAfterTaxProfit)
  => /\ out.eligibleDividends = dividendPools(inp.businessIncome, inp.otherExpenses).elCap
     /\ out.nonEligibleDividends = dividendPools(inp.businessIncome, inp.otherExpenses).neCap
     /\ out.corporateCash = Zero

\* C24: for otherExpenses >= 0, calculateIncorporatedDividends returns corporateCash
\* = (neCap + elCap) - eligibleDividends - nonEligibleDividends, where neCap + elCap
\* = profitBeforeTax - corporateTaxes, and corporateCash >= 0.
RetainedCorporateCash ==
  (pc = "done" /\ inp.fn = "calculateIncorporatedDividends"
     /\ GE(Default(inp.otherExpenses, Zero), Zero))
  => LET profitBeforeTax == Max(Zero, Sub(inp.businessIncome, expensesRead(inp)))
         capacity == Add(statedPools(inp).neCap, statedPools(inp).elCap)
     IN /\ capacity = Sub(profitBeforeTax, out.corporateTaxes)
        /\ out.corporateCash =
             Sub(Sub(capacity, out.eligibleDividends), out.nonEligibleDividends)
        /\ GE(out.corporateCash, Zero)

\* C25: for every input calculateIncorporatedSalary returns corporateCPP = the
\* employer-side contribution on the solved grossSalary, corporateTaxes =
\* computeCorporateTaxesBC(profit).corporateTaxes for profit = max(0, businessIncome
\* - grossSalary - employer-side contribution - otherExpenses), and corporateCash =
\* profit - corporateTaxes >= 0; otherExpenses is 0 for a call that leaves it out
\* or passes what is not a number.
SalaryCorporateSide ==
  (pc = "done" /\ inp.fn = "calculateIncorporatedSalary")
  => LET a == subAmounts(out.grossSalary)
         employerSide == Add(Add(a.er_base, a.er_enh), a.er_t2)
         profit == Max(Zero, Sub(Sub(Sub(inp.businessIncome, out.grossSalary),
                                     employerSide), expensesRead(inp)))
         tax == computeCorporateTaxesBC(profit).corporateTaxes
     IN /\ out.corporateCPP = employerSide
        /\ out.corporateTaxes = tax
        /\ out.corporateCash = Sub(profit, tax)
        /\ GE(out.corporateCash, Zero)

\* income 400000, expenses 20000, target 100000: the employer's 4430.10 and the
\* salary above 138000 come off the profit, which is taxed at the small-business rate
SalaryCorporateSideWitness ==
  /\ pc = "done"
  /\ inp.fn = "calculateIncorporatedSalary"
  /\ inp.businessIncome = N(400000)
  /\ inp.otherExpenses = N(20000)
  /\ inp.personalCashNeeded = N(100000)
  /\ out.corporateCPP = Dec(4430, 10000000)
  /\ LT(N(138000), out.grossSalary)
  /\ LT(N(200000), out.corporateCash)
  /\ LT(out.corporateCash, N(215000))
  /\ LT(N(26000), out.corporateTaxes)

\* C26 as stated: for every gross, cppForEmployeeSalary returns employeePaid =
\* employee base + enhanced + tier 2, personalDeduction = employee enhanced + tier 2,
\* the employee base as the creditable amount (credited at 15% federally, 5.06%
\* provincially) and employerPaid = corporateDeduction = employer base + enhanced +
\* tier 2; creditable amount + personalDeduction = employeePaid, and netFromGross
\* takes only personalDeduction off the taxable income.
EmployeeTreatment ==
  (pc = "done" /\ inp.fn = "cppForEmployeeSalary")
  => LET a == subAmounts(inp.gross)
     IN /\ out.employeePaid = Add(Add(a.ee_base, a.ee_enh), a.ee_t2)
        /\ out.personalDeduction = Add(a.ee_enh, a.ee_t2)
        /\ out.parts.ee_t1_base = a.ee_base
        /\ out.extraFedCredit = Mul(a.ee_base, Dec(0, 15000000))
        /\ out.extraBcCredit = Mul(a.ee_base, Dec(0, 5060000))
        /\ out.employerPaid = Add(Add(a.er_base, a.er_enh), a.er_t2)
        /\ out.corporateDeduction = out.employerPaid
        /\ Add(a.ee_base, out.personalDeduction) = out.employeePaid
        /\ netFromGross(inp.gross).taxableIncome =
             Max(Zero, Sub(inp.gross, Add(a.ee_enh, a.ee_t2)))
        /\ netFromGross(inp.gross).personalCPP = out.employeePaid

\* C26 as amended: as stated, except that creditable amount + personalDeduction is
\* within 0.000001 of employeePaid (base + (enhanced + tier 2) rounds differently
\* from (base + enhanced) + tier 2).
EmployeeTreatmentRounded ==
  (pc = "done" /\ inp.fn = "cppForEmployeeSalary")
  => LET a == subAmounts(inp.gross)
     IN /\ out.employeePaid = Add(Add(a.ee_base, a.ee_enh), a.ee_t2)
        /\ out.personalDeduction = Add(a.ee_enh, a.ee_t2)
        /\ out.parts.ee_t1_base = a.ee_base
        /\ out.extraFedCredit = Mul(a.ee_base, Dec(0, 15000000))
        /\ out.extraBcCredit = Mul(a.ee_base, Dec(0, 5060000))
        /\ out.employerPaid = Add(Add(a.er_base, a.er_enh), a.er_t2)
        /\ out.corporateDeduction = out.employerPaid
        /\ Near(Add(a.ee_base, out.personalDeduction), out.employeePaid)
        /\ netFromGross(inp.gross).taxableIncome =
             Max(Zero, Sub(inp.gross, Add(a.ee_enh, a.ee_t2)))
        /\ netFromGross(inp.gross).personalCPP = out.employeePaid

\* a salary of 73461, between the two ceilings: 678 + 86.44 deductible, about
\* 3356.10 creditable, and the two together a Number just above the 4120.54 paid
EmployeeTreatmentWitness ==
  /\ pc = "done"
  /\ inp.fn = "cppForEmployeeSalary"
  /\ inp.gross = N(73461)
  /\ LT(N(3356), out.parts.ee_t1_base)
  /\ LT(N(764), out.personalDeduction)
  /\ out.employerPaid = out.employeePaid
  /\ LT(out.employeePaid, Add(out.parts.ee_t1_base, out.personalDeduction))
  /\ Near(Add(out.parts.ee_t1_base, out.personalDeduction), out.employeePaid)
  /\ LT(N(72696), netFromGross(inp.gross).taxableIncome)

\* the two jurisdictions' bracket tax and summed credits of a salary
salaryCredits(grossSalary) ==
  LET a == subAmounts(grossSalary)
      taxableIncome == Max(Zero, Sub(grossSalary, Add(a.ee_enh, a.ee_t2)))
  IN [fedGross |-> progressiveTax(taxableIncome, FED_BRACKETS),
      bcGross |-> progressiveTax(taxableIncome, BC_BRACKETS),
      fedCredits |-> Add(Mul(N(16103), Dec(0, 15000000)), Mul(a.ee_base, Dec(0, 15000000))),
      bcCredits |-> Add(Mul(N(12580), Dec(0, 5060000)), Mul(a.ee_base, Dec(0, 5060000)))]

\* the two jurisdictions' bracket tax and summed credits of a dividend mix
dividendCredits(eligibleCash, nonEligibleCash) ==
  LET el == Mul(Max(Zero, eligibleCash), Dec(1, 38000000))
      ne == Mul(Max(Zero, nonEligibleCash), Dec(1, 15000000))
  IN [fedGross |-> progressiveTax(Add(el, ne), FED_BRACKETS),
      bcGross |-> progressiveTax(Add(el, ne), BC_BRACKETS),
      fedCredits |-> Add(Add(Mul(el, Dec(0, 15019800)), Mul(ne, Dec(0, 9030100))),
                         Mul(N(16103), Dec(0, 15000000))),
      bcCredits |-> Add(Add(Mul(el, Dec(0, 12000000)), Mul(ne, Dec(0, 1960000))),
                        Mul(N(12580), Dec(0, 5060000)))]

\* each jurisdiction's tax is its own bracket tax less its own credits, not below 0
creditedOnce(c, federalTax, provincialTax, personalTaxes) ==
  /\ federalTax = Max(Zero, Sub(c.fedGross, c.fedCredits))
  /\ provincialTax = Max(Zero, Sub(c.bcGross, c.bcCredits))
  /\ personalTaxes = Add(federalTax, provincialTax)
  /\ GE(federalTax, Zero)
  /\ GE(provincialTax, Zero)
  /\ GE(personalTaxes, federalTax)
  /\ GE(personalTaxes, provincialTax)

\* C27: in netFromGross and in personalDividendTaxCombined federalTax = max(0,
\* federal bracket tax - sum of federal credits), provincialTax = max(0, BC bracket
\* tax - sum of BC credits), personalTaxes is their sum, both are >= 0, and credits
\* left over in one jurisdiction take nothing off the other's tax.
CreditsOncePerJurisdiction ==
  pc = "done" =>
    /\ inp.fn = "netFromGross" =>
         LET r == netFromGross(inp.gross)
         IN /\ creditedOnce(salaryCredits(inp.gross),
                            r.federalTax, r.provincialTax, r.personalTaxes)
            /\ out.net = Sub(Sub(inp.gross, r.personalTaxes), r.personalCPP)
    /\ inp.fn = "personalDividendTaxCombined" =>
         creditedOnce(dividendCredits(inp.eligibleCash, inp.nonEligibleCash),
                      out.federalTax, out.provincialTax, out.personalTax)

\* 100000 of eligible dividends: the BC credits exceed the BC bracket tax, the
\* provincial tax is 0 and the federal tax is due in full
CreditsOncePerJurisdictionWitness ==
  /\ pc = "done"
  /\ inp.fn = "personalDividendTaxCombined"
  /\ inp.eligibleCash = N(100000)
  /\ inp.nonEligibleCash = Zero
  /\ LT(dividendCredits(inp.eligibleCash, inp.nonEligibleCash).bcGross,
        dividendCredits(inp.eligibleCash, inp.nonEligibleCash).bcCredits)
  /\ out.provincialTax = Zero
  /\ LT(N(3000), out.federalTax)
  /\ out.personalTax = out.federalTax

\* C28: personalDividendTaxCombined treats a negative cash amount as 0, returns
\* taxableAmount = 1.38 * eligibleCash + 1.15 * nonEligibleCash, takes both bracket
\* taxes on that grossed-up total and each dividend tax credit as the class's rate
\* times the class's grossed-up amount, not the cash; personalDividendTax does the
\* same for one class, and calculateIncorporatedDividends reports the grossed-up
\* total of its mix as taxableIncome.
DividendGrossUp ==
  pc = "done" =>
    /\ inp.fn = "personalDividendTaxCombined" =>
         LET el == Mul(Max(Zero, inp.eligibleCash), Dec(1, 38000000))
             ne == Mul(Max(Zero, inp.nonEligibleCash), Dec(1, 15000000))
             fedCredits == Add(Add(Mul(el, Dec(0, 15019800)), Mul(ne, Dec(0, 9030100))),
                               Mul(N(16103), Dec(0, 15000000)))
             bcCredits == Add(Add(Mul(el, Dec(0, 12000000)), Mul(ne, Dec(0, 1960000))),
                              Mul(N(12580), Dec(0, 5060000)))
         IN /\ out.taxableAmount = Add(el, ne)
            /\ out.federalTax =
                 Max(Zero, Sub(progressiveTax(Add(el, ne), FED_BRACKETS), fedCredits))
            /\ out.provincialTax =
                 Max(Zero, Sub(progressiveTax(Add(el, ne), BC_BRACKETS), bcCredits))
            /\ out = personalDividendTaxCombined(Max(Zero, inp.eligibleCash),
                                                 Max(Zero, inp.nonEligibleCash))
    /\ inp.fn = "personalDividendTax" =>
         LET up == IF inp.type = "eligible" THEN Dec(1, 38000000) ELSE Dec(1, 15000000)
             fedRate == IF inp.type = "eligible" THEN Dec(0, 15019800) ELSE Dec(0, 9030100)
             bcRate == IF inp.type = "eligible" THEN Dec(0, 12000000) ELSE Dec(0, 1960000)
             grossed == Mul(Max(Zero, inp.divCash), up)
         IN /\ out.taxableAmount = grossed
            /\ out.fedDTC = Mul(grossed, fedRate)
            /\ out.bcDTC = Mul(grossed, bcRate)
            /\ out.fedTax =
                 Max(Zero, Sub(progressiveTax(grossed, FED_BRACKETS),
                               Add(out.fedDTC, Mul(N(16103), Dec(0, 15000000)))))
            /\ out.bcTax =
                 Max(Zero, Sub(progressiveTax(grossed, BC_BRACKETS),
                               Add(out.bcDTC, Mul(N(12580), Dec(0, 5060000)))))
    /\ inp.fn = "calculateIncorporatedDividends" =>
         out.taxableIncome = Add(Mul(out.eligibleDividends, Dec(1, 38000000)),
                                 Mul(out.nonEligibleDividends, Dec(1, 15000000)))

\* 100000 of eligible and 50000 of non-eligible dividends are taxed as 195500
DividendGrossUpWitness ==
  /\ pc = "done"
  /\ inp.fn = "personalDividendTaxCombined"
  /\ inp.eligibleCash = N(100000)
  /\ inp.nonEligibleCash = N(50000)
  /\ out.taxableAmount = N(195500)
  /\ LT(Zero, out.federalTax)
  /\ LT(Zero, out.provincialTax)

\* the fields of a salary result that the solved salary determines
SolvedSalaryFields ==
  {"grossSalary", "personalTaxes", "personalCPP", "corporateCPP", "personalCash",
   "federalTax", "provincialTax", "taxableIncome", "rrspRoom"}

\* C29: two calls of calculateIncorporatedSalary with the same personalCashNeeded
\* and different businessIncome or otherExpenses agree on grossSalary, personalTaxes,
\* personalCPP, corporateCPP, personalCash, federalTax, provincialTax, taxableIncome
\* and rrspRoom: the solved salary does not depend on what the business earns.
SalaryIgnoresBusinessIncome ==
  (pc = "done" /\ inp.fn = "calculateIncorporatedSalary" /\ inp.previous # NoOut)
  => /\ inp.previous.params.personalCashNeeded = inp.personalCashNeeded
     /\ \A f \in SolvedSalaryFields : out[f] = inp.previous.result[f]

\* a target of 100000 out of an income of 400000 and again out of no income at all:
\* the same salary above 138000, more than the business earns, and other corporate
\* cash
SalaryIgnoresBusinessIncomeWitness ==
  /\ pc = "done"
  /\ inp.fn = "calculateIncorporatedSalary"
  /\ inp.previous # NoOut
  /\ inp.personalCashNeeded = N(100000)
  /\ inp.previous.params.businessIncome = N(400000)
  /\ inp.businessIncome = Zero
  /\ out.grossSalary = inp.previous.result.grossSalary
  /\ LT(N(138000), out.grossSalary)
  /\ LT(inp.businessIncome, Add(out.grossSalary, out.corporateCPP))
  /\ out.corporateCash = Zero
  /\ LT(Zero, inp.previous.result.corporateCash)
  /\ out.totalTaxRate # inp.previous.result.totalTaxRate

\* C30: for every income, negative ones included, taxFromBrackets over the federal
\* and the BC table as {upTo, rate} equals progressiveTax over the same table as
\* [cap, rate].
BracketTaxesAgree ==
  (pc = "done" /\ inp.fn = "taxFromBrackets")
  => /\ inp.brackets = FED_BRACKETS_2025 =>
          out.tax = progressiveTax(inp.income, FED_BRACKETS)
     /\ inp.brackets = BC_BRACKETS_2025 =>
          out.tax = progressiveTax(inp.income, BC_BRACKETS)

\* 300000 under the BC table: all seven bands are taxed, 39200.6044 by either function
BracketTaxesAgreeWitness ==
  /\ pc = "done"
  /\ inp.fn = "taxFromBrackets"
  /\ inp.income = N(300000)
  /\ inp.brackets = BC_BRACKETS_2025
  /\ out.tax = progressiveTax(N(300000), BC_BRACKETS)
  /\ out.tax = Dec(39200, 60440000)

====
